---- MODULE Spec2Model ----
(***************************************************************************)
(* Model of track_tram_reliability: deduplicated persistence of departures *)
(* (ingest.py, db.py, models.py), the ingestion pass and the resilient     *)
(* poller (poller.py).                                                     *)
(*                                                                         *)
(* Python Optional[T] values are sequences of length at most one: None is  *)
(* <<>> and a present value v is <<v>>.  Strings that the program          *)
(* normalises (labels, names) are sequences of one-character strings.      *)
(***************************************************************************)
EXTENDS Integers, Sequences, FiniteSets, TLC

VARIABLES
    departures_raw,   \* committed rows of table departures_raw, in insertion order
    session_new,      \* rows flushed by the open session's transaction, not yet committed
    call_deps,        \* argument `departures` of the insert_departures call of the session
    call_ret,         \* value returned by that call: <<inserted, skipped>>
    ipc,              \* position of the caller of insert_departures: "idle" | "inserted"
    stations_tbl,     \* table stations: station_id -> row, defined on the ids present
    ppc,              \* position of ingest_departures_for_products:
                      \*   "idle" | "fetching" | "persisting" | "returned"
    pass_args,        \* arguments of the pass: products, labels, station_names, station_ids
    filtered,         \* local `filtered`: the target stations, in cache order
    futures,          \* station id -> "running" | "done" | "raised", per submitted fetch
    fetched,          \* station id -> what fetch_departures returned to its worker
    results,          \* local `results`: <<station_id, deps>> in completion order
    ri,               \* number of entries of `results` already persisted
    counters,         \* [stations_processed, rows_inserted, rows_skipped]
    clock,            \* number of passes started; gives the fetch time of a pass
    stop_flag,        \* run_poller: stop_flag["stop"]
    backoff,          \* run_poller: local backoff
    lpc,              \* position of run_poller: "top" | "pass" | "backoff_sleep" |
                      \*   "after" | "cadence_sleep" | "Stopped"
    now,              \* time.time(), in whole seconds since the poller started
    t0,               \* run_poller: local t0
    sleep_time,       \* run_poller: local sleep_time
    polling_interval_seconds,   \* run_poller: argument
    fails,            \* consecutive failed passes up to now
    iters,            \* iterations of the while loop started
    arg_stations,     \* filter_stations_by_products: argument stations
    arg_products,     \* filter_stations_by_products: argument products
    ret_stations,     \* filter_stations_by_products: the list returned
    fpc,              \* position of its caller: "ready" | "returned"
    gtfs_archive,     \* the static-feed archive: "ok" | "unreachable" |
                      \*   "malformed" | "missing_table"
    gtfs,             \* its tables: routes, trips, stop_times, stops
    index_args,       \* build_label_index: products, labels
    index,            \* cli.py build_label_index: local `index`
    out_file,         \* the file at `out`: absent, or the text written to it
    cpc,              \* position of the command: "ready" | "built" |
                      \*   "written" | "failed"
    runs,             \* invocations of the command so far
    norm_arg,         \* _normalize_epoch_seconds: argument value
    norm_ret,         \* _normalize_epoch_seconds: the value returned
    item,             \* fetch_departures: one record of the upstream answer
    dep,              \* fetch_departures: the Departure built from it
    dpc,              \* position of the caller: "ready" | "normalized" | "fetched"
    race_deps,        \* overlapping passes: pass -> the departures it persists
    race_pos,         \* pass -> departures its insert loop has handled
    race_txn,         \* pass -> rows flushed by its session, not yet committed
    race_out,         \* pass -> outcome per handled departure: "inserted" | "skipped"
    race_pc,          \* pass -> "persisting" | "returned" | "failed"
    race_lock,        \* the pass holding the database write lock, 0 when free
    cli_cmd,          \* the command run: "ingest" | "poll"
    cli_opts,         \* its options, as given on the command line
    cli_index,        \* the file at label_index_path: absent, or the index text
    cli_call,         \* arguments the command hands to ingest_departures_for_products
    cli_pc,           \* position of the command: "ready" | "called" | "failed"
    res_args,         \* the products and labels of the last call of resolve_stations_for_labels
    res_ret           \* Optional: the list it returned

insertVars == <<call_deps, call_ret, ipc>>
storeVars  == <<departures_raw, session_new>>
passVars   == <<stations_tbl, ppc, pass_args, filtered, futures, fetched, results, ri,
               counters, clock>>

pollerVars == <<stop_flag, backoff, lpc, now, t0, sleep_time,
                 polling_interval_seconds, fails, iters>>

filterVars == <<arg_stations, arg_products, ret_stations, fpc>>

indexVars  == <<gtfs_archive, gtfs, index_args, index, out_file, cpc, runs>>

fetchVars == <<norm_arg, norm_ret, item, dep, dpc>>

raceVars == <<race_deps, race_pos, race_txn, race_out, race_pc, race_lock>>

cliVars == <<cli_cmd, cli_opts, cli_index, cli_call, cli_pc>>

resolveVars == <<res_args, res_ret>>

vars == <<departures_raw, session_new, call_deps, call_ret, ipc,
          stations_tbl, ppc, pass_args, filtered, futures, fetched, results, ri,
          counters, clock,
          stop_flag, backoff, lpc, now, t0, sleep_time,
          polling_interval_seconds, fails, iters,
          arg_stations, arg_products, ret_stations, fpc,
          gtfs_archive, gtfs, index_args, index, out_file, cpc, runs,
          norm_arg, norm_ret, item, dep, dpc,
          race_deps, race_pos, race_txn, race_out, race_pc, race_lock,
          cli_cmd, cli_opts, cli_index, cli_call, cli_pc,
          res_args, res_ret>>

----------------------------------------------------------------------------
(* Bounds of the model *)

MaxBatch == 3         \* longest list handed to one insert_departures call
MaxRows  == 3         \* rows a store may be asked to hold (committed + batch)

----------------------------------------------------------------------------
(* Optional values *)

None == <<>>
Some(v) == <<v>>
IsNone(o) == o = <<>>

(* Strings as character sequences *)
S_T17     == <<"T", "1", "7">>
S_19      == <<"1", "9">>
S_Central == <<"C", "e", "n", "t", "r", "a", "l">>
S_TRAM    == <<"T", "R", "A", "M">>
S_BUS     == <<"B", "U", "S">>
S_UBAHN   == <<"U", "B", "A", "H", "N">>
S_ALL     == <<"A", "L", "L">>
S_tram    == <<"t", "r", "a", "m">>
S_s1      == <<"s", "1">>
S_s2      == <<"s", "2">>
S_s3      == <<"s", "3">>

LowerAlpha == << "a", "b", "c", "d", "e", "f", "g", "h", "i", "j", "k", "l", "m",
                 "n", "o", "p", "q", "r", "s", "t", "u", "v", "w", "x", "y", "z" >>
UpperAlpha == << "A", "B", "C", "D", "E", "F", "G", "H", "I", "J", "K", "L", "M",
                 "N", "O", "P", "Q", "R", "S", "T", "U", "V", "W", "X", "Y", "Z" >>

(* str.upper(), str.lower(), one character at a time *)
UpperChar(c) ==
    IF \E i \in 1..26 : LowerAlpha[i] = c
    THEN UpperAlpha[CHOOSE i \in 1..26 : LowerAlpha[i] = c]
    ELSE c
LowerChar(c) ==
    IF \E i \in 1..26 : UpperAlpha[i] = c
    THEN LowerAlpha[CHOOSE i \in 1..26 : UpperAlpha[i] = c]
    ELSE c
str_upper(s) == [ i \in 1..Len(s) |-> UpperChar(s[i]) ]
str_lower(s) == [ i \in 1..Len(s) |-> LowerChar(s[i]) ]

(* str.strip(): drop leading and trailing whitespace *)
IsSpace(c) == c = " "
RECURSIVE str_lstrip(_)
str_lstrip(s) ==
    IF s # <<>> /\ IsSpace(Head(s)) THEN str_lstrip(Tail(s)) ELSE s
RECURSIVE str_rstrip(_)
str_rstrip(s) ==
    IF s # <<>> /\ IsSpace(s[Len(s)])
    THEN str_rstrip(SubSeq(s, 1, Len(s) - 1)) ELSE s
str_strip(s) == str_rstrip(str_lstrip(s))

----------------------------------------------------------------------------
(* models.py: Departure *)

Departure(station_id, planned, realtime_t, delay, transport_type, label, destination, cancelled, platform, realtime, fetched_at) ==
    [ station_id              |-> station_id,
      planned_departure_time  |-> planned,
      realtime_departure_time |-> realtime_t,
      delay_in_minutes        |-> delay,
      transport_type          |-> transport_type,
      label                   |-> label,
      destination             |-> destination,
      cancelled               |-> cancelled,
      platform                |-> platform,
      realtime                |-> realtime,
      fetched_at              |-> fetched_at ]

(* db.py: the five columns of UniqueConstraint uq_departure_identity *)
UqDepartureIdentity ==
    { "station_id", "transport_type", "label", "destination",
      "planned_departure_time" }

(* Of these, station_id is a plain value; the four others are Optional. *)
NullableKeyCols ==
    { "transport_type", "label", "destination", "planned_departure_time" }

NaturalKey(d) ==
    << d.station_id, d.transport_type, d.label, d.destination,
       d.planned_departure_time >>

(* db.py: DepartureRawOrm row built by insert_departures from a Departure; *)
(* id is the autoincrement surrogate key                                   *)
DepartureRawOrm(d, id) ==
    [ id                      |-> id,
      station_id              |-> d.station_id,
      transport_type          |-> d.transport_type,
      label                   |-> d.label,
      destination             |-> d.destination,
      planned_departure_time  |-> d.planned_departure_time,
      realtime_departure_time |-> d.realtime_departure_time,
      delay_in_minutes        |-> d.delay_in_minutes,
      cancelled               |-> d.cancelled,
      platform                |-> d.platform,
      realtime                |-> d.realtime,
      fetched_at              |-> d.fetched_at ]

Range(s) == { s[i] : i \in 1..Len(s) }

(* an epoch-seconds timestamp, as in the tests *)
T0 == 1700000000

----------------------------------------------------------------------------
(* The SQLAlchemy session used by insert_departures.  The session runs one *)
(* transaction from its first flush to its commit or rollback; `txn` is    *)
(* the sequence of rows that transaction has inserted so far.              *)

(* Rows the session's INSERT sees: committed rows and its own flushed rows *)
VisibleRows(table, txn) == table \o txn

(* The unique constraint rejects a row when a visible row has the same     *)
(* value in all five columns; as in SQL (sqlite, the default db_url), a    *)
(* NULL in a column never equals anything, so a row with a NULL key column *)
(* conflicts with no row.                                                  *)
UqConflict(rows, rec) ==
    \E i \in 1..Len(rows) :
        /\ rows[i].station_id = rec.station_id
        /\ \A c \in NullableKeyCols :
              /\ ~IsNone(rec[c])
              /\ rows[i][c] = rec[c]

(* session.flush() raises IntegrityError *)
FlushRaises(table, txn, rec) == UqConflict(VisibleRows(table, txn), rec)

(* session.flush() succeeded: the INSERT is part of the open transaction *)
SessionFlush(txn, rec) == Append(txn, rec)

(* session.rollback(): the open transaction is rolled back as a whole, so  *)
(* every row it inserted is undone and the pending object is expunged      *)
SessionRollback(txn) == <<>>

(* session.commit(): the rows of the open transaction become table rows *)
SessionCommit(table, txn) == table \o txn

(* next value of the autoincrement primary key *)
NextId(table, txn) == Len(table) + Len(txn) + 1

----------------------------------------------------------------------------
(* ingest.py: insert_departures(session, departures).  The loop over the   *)
(* list, with the counters the function returns.                           *)

RECURSIVE InsertLoop(_, _, _, _, _)
InsertLoop(table, txn, deps, inserted, skipped) ==
    IF deps = <<>>
    THEN [ txn |-> txn, inserted |-> inserted, skipped |-> skipped ]
    ELSE LET rec == DepartureRawOrm(Head(deps), NextId(table, txn))
         IN  IF FlushRaises(table, txn, rec)
             THEN InsertLoop(table, SessionRollback(txn), Tail(deps),
                             inserted, skipped + 1)
             ELSE InsertLoop(table, SessionFlush(txn, rec), Tail(deps),
                             inserted + 1, skipped)

insert_departures(table, txn, deps) == InsertLoop(table, txn, deps, 0, 0)

----------------------------------------------------------------------------
(* models.py: Station; stations.py: the station cache read by read_cache   *)

Station(id, name, products) ==
    [ id |-> id, name |-> name, place |-> None, latitude |-> None,
      longitude |-> None, diva_id |-> None, tariff_zones |-> None,
      products |-> products ]

StationCache ==
    << Station(S_s1, <<"A", "l", "p", "h", "a">>, Some(<<S_TRAM>>)),
       Station(S_s2, <<"B", "e", "t", "a">>, Some(<<S_BUS, S_TRAM>>)),
       Station(S_s3, <<"G", "a", "m", "m", "a">>, Some(<<S_UBAHN>>)) >>

read_cache == StationCache

(* the stations of seq whose id is in keep, in the order of seq *)
RECURSIVE SelectIds(_, _)
SelectIds(seq, keep) ==
    IF seq = <<>> THEN <<>>
    ELSE IF Head(seq).id \in keep
         THEN <<Head(seq)>> \o SelectIds(Tail(seq), keep)
         ELSE SelectIds(Tail(seq), keep)

(* ingest.py: _norm_label, _norm_name on Optional strings *)
norm_label(val) ==
    IF IsNone(val) THEN None ELSE Some(str_upper(str_strip(val[1])))
norm_name(val) ==
    IF IsNone(val) THEN None ELSE Some(str_lower(str_strip(val[1])))

(* ingest.py: filter_stations_by_products(stations, products); products is *)
(* an Optional set of strings                                              *)
ProductMatches_CaseSensitive(st, products) ==
    /\ ~IsNone(st.products)
    /\ st.products[1] # <<>>
    /\ Range(st.products[1]) \cap products # {}

ProductMatches(st, products) ==
    LET wanted == { str_upper(p) : p \in products }
    IN  /\ ~IsNone(st.products)
        /\ st.products[1] # <<>>
        /\ { str_upper(p) : p \in Range(st.products[1]) } \cap wanted # {}

filter_stations_by_products(stations, products) ==
    IF IsNone(products) \/ products[1] = {} \/ S_ALL \in products[1]
    THEN stations
    ELSE SelectIds(stations,
                   { stations[i].id : i \in { j \in 1..Len(stations) :
                         ProductMatches(stations[j], products[1]) } })

(* ingest.py lines 117-123: the explicit name and id filters *)
FilterByNames(stations, station_names) ==
    IF IsNone(station_names) \/ station_names[1] = {}
    THEN stations
    ELSE LET name_set == { norm_name(Some(x)) : x \in station_names[1] }
         IN  SelectIds(stations,
                       { stations[i].id : i \in { j \in 1..Len(stations) :
                             norm_name(Some(stations[j].name)) \in name_set } })

FilterByIds_EmptySelectsNone(stations, station_ids) ==
    IF IsNone(station_ids)
    THEN stations
    ELSE LET id_set == { str_strip(x) : x \in station_ids[1] }
         IN  SelectIds(stations, { stations[i].id : i \in 1..Len(stations) } \cap id_set)

FilterByIds(stations, station_ids) ==
    IF IsNone(station_ids) \/ station_ids[1] = {}
    THEN stations
    ELSE LET id_set == { str_strip(x) : x \in station_ids[1] }
         IN  SelectIds(stations, { stations[i].id : i \in 1..Len(stations) } \cap id_set)

TargetStations(args) ==
    FilterByIds(
        FilterByNames(filter_stations_by_products(read_cache, args.products),
                      args.station_names),
        args.station_ids)

(* db.py: StationOrm row *)
StationOrm(st, last_seen_at) ==
    [ station_id |-> st.id, name |-> Some(st.name), place |-> st.place,
      latitude |-> st.latitude, longitude |-> st.longitude,
      diva_id |-> st.diva_id, tariff_zones |-> st.tariff_zones,
      products |-> st.products, last_seen_at |-> last_seen_at ]

(* ingest.py: sync_stations_from_cache_to_db: session.get, add when        *)
(* missing, overwrite the cached fields, commit                            *)
(* a lookup that never finds the row *)
SessionGet_Blind(tbl, id) == 0

(* session.get(StationOrm, id): the position of the row with that primary *)
(* key, 0 when there is none                                              *)
SessionGet(tbl, id) ==
    IF \E j \in 1..Len(tbl) : tbl[j].station_id = id
    THEN CHOOSE j \in 1..Len(tbl) : tbl[j].station_id = id
    ELSE 0

RECURSIVE SyncLoop(_, _)
SyncLoop(tbl, stations) ==
    IF stations = <<>> THEN tbl
    ELSE LET st == Head(stations)
             j  == SessionGet(tbl, st.id)
         IN  SyncLoop(IF j = 0
                      THEN Append(tbl, StationOrm(st, None))
                      ELSE [ tbl EXCEPT ![j] = StationOrm(st, tbl[j].last_seen_at) ],
                      Tail(stations))

sync_stations_from_cache_to_db(tbl) == SyncLoop(tbl, read_cache)

----------------------------------------------------------------------------
(* What the provider may answer to one fetch_departures(station_id): a     *)
(* list of departures of that station, all stamped with the fetch time.    *)

MaxDeps   == 2        \* longest answer of one fetch
MaxPasses == 2        \* ingestion passes in one behaviour
MaxStored == 2        \* departures a behaviour may ask the store to hold

FetchLabels == { Some(S_T17), Some(S_19), None }
FetchPlanned == { None, Some(T0) }

(* the (planned time, label) pairs a fetched departure may carry *)
FetchShapes ==
    { sh \in FetchPlanned \X FetchLabels :
         sh[1] # None \/ sh[2] = Some(S_T17) }

FetchTime(c) == T0 + 60 * c

Fetched(station_id, planned, label, fetched_at) ==
    Departure(station_id, planned, Some(T0 + 300), Some(5), Some(S_TRAM),
              label, Some(S_Central), FALSE, None, TRUE, fetched_at)

FetchUniverse(station_id, fetched_at) ==
    { Fetched(station_id, sh[1], sh[2], fetched_at) : sh \in FetchShapes }

FetchAnswers(station_id, fetched_at) ==
    UNION { [1..n -> FetchUniverse(station_id, fetched_at)] : n \in 0..MaxDeps }

(* ingest.py lines 135-142: _fetch_for_station keeps the departures whose  *)
(* normalised label is in norm_labels when a label filter was requested    *)
LabelFiltered_Unnormalised(deps, labels) ==
    IF IsNone(labels) \/ labels[1] = {}
    THEN deps
    ELSE SelectSeq(deps, LAMBDA d : ~IsNone(d.label) /\ d.label[1] \in labels[1])

LabelFiltered(deps, labels) ==
    IF IsNone(labels) \/ labels[1] = {}
    THEN deps
    ELSE LET norm_labels == { norm_label(Some(x)) : x \in labels[1] }
         IN  SelectSeq(deps, LAMBDA d : norm_label(d.label) \in norm_labels)

----------------------------------------------------------------------------
(* ingest.py: ingest_departures_for_products, one step per phase           *)

PassIdle ==
    /\ stations_tbl = << >>
    /\ ppc = "idle"
    /\ pass_args = [ products |-> None, labels |-> None,
                     station_names |-> None, station_ids |-> None ]
    /\ filtered = <<>>
    /\ futures = << >>
    /\ fetched = << >>
    /\ results = <<>>
    /\ ri = 0
    /\ counters = [ stations_processed |-> 0, rows_inserted |-> 0,
                    rows_skipped |-> 0 ]
    /\ clock = 0

(* the stations table the first pass finds: the row an earlier sync wrote *)
(* for s2 from an older cache                                              *)
StaleStation == Station(S_s2, <<"B", "e", "t", "h">>, Some(<<S_BUS>>))
InitialStationTable == << StationOrm(StaleStation, None) >>

ProductArgs == { Some({S_TRAM}), Some({S_UBAHN}) }
LabelArgs   == { None, Some({<<" ", "t", "1", "7">>}) }

StationNameArgs == { None, Some({<<" ", "B", "E", "T", "A">>}) }
StationIdArgs   == { None, Some({}), Some({S_s1, S_s3}) }

PassArgs ==
    { args \in [ products : ProductArgs, labels : LabelArgs,
                 station_names : StationNameArgs, station_ids : StationIdArgs ] :
         \/ args.station_names = None /\ args.station_ids = None
         \/ args.labels = None /\ args.products = Some({S_TRAM}) }

(* number of departures held by the entries of results *)
RECURSIVE ResultRows(_)
ResultRows(res) ==
    IF res = <<>> THEN 0 ELSE Len(Head(res)[2]) + ResultRows(Tail(res))

(* number of departures the fetches of the pass have returned *)
RECURSIVE FetchedRows(_)
FetchedRows(f) ==
    IF DOMAIN f = {} THEN 0
    ELSE LET x == CHOOSE y \in DOMAIN f : TRUE
         IN  Len(f[x]) + FetchedRows([ y \in DOMAIN f \ {x} |-> f[y] ])

(* lines 114-145: read the cache, narrow the stations, upsert the stations *)
(* table, reset the counters and submit one fetch per target station       *)
BeginPass(args) ==
    /\ ppc \in { "idle", "returned" }
    /\ clock < MaxPasses
    /\ pass_args' = args
    /\ filtered' = TargetStations(args)
    /\ stations_tbl' = sync_stations_from_cache_to_db(stations_tbl)
    /\ counters' = [ stations_processed |-> 0, rows_inserted |-> 0,
                     rows_skipped |-> 0 ]
    /\ futures' = [ id \in { filtered'[i].id : i \in 1..Len(filtered') } |-> "running" ]
    /\ fetched' = << >>
    /\ results' = <<>>
    /\ ri' = 0
    /\ clock' = clock + 1
    /\ ppc' = "fetching"

(* a caller of ingest_departures_for_products with some arguments *)
StartPass ==
    /\ \E args \in PassArgs : BeginPass(args)
    /\ UNCHANGED <<resolveVars, cliVars, raceVars, fetchVars, storeVars, insertVars, pollerVars, filterVars, indexVars>>

(* lines 147-149: a fetch completes with an answer; its label-filtered     *)
(* departures are appended to results                                      *)
FetchReturns ==
    /\ ppc = "fetching"
    /\ \E id \in DOMAIN futures :
          /\ futures[id] = "running"
          /\ \E deps \in FetchAnswers(id, FetchTime(clock)) :
                /\ Len(departures_raw) + FetchedRows(fetched) + Len(deps) <= MaxStored
                /\ fetched' = [ x \in DOMAIN fetched \cup {id} |->
                                    IF x = id THEN deps ELSE fetched[x] ]
                /\ results' = Append(results,
                                     <<id, LabelFiltered(deps, pass_args.labels)>>)
          /\ futures' = [ futures EXCEPT ![id] = "done" ]
    /\ UNCHANGED <<resolveVars, cliVars, raceVars, fetchVars, pollerVars, filterVars, indexVars, storeVars, insertVars, stations_tbl, ppc, pass_args,
                   filtered, ri, counters, clock>>

(* lines 150-152: a fetch raises; the failure is skipped *)
FetchRaises ==
    /\ ppc = "fetching"
    /\ \E id \in DOMAIN futures :
          /\ futures[id] = "running"
          /\ futures' = [ futures EXCEPT ![id] = "raised" ]
    /\ UNCHANGED <<resolveVars, cliVars, raceVars, fetchVars, pollerVars, filterVars, indexVars, storeVars, insertVars, stations_tbl, ppc, pass_args,
                   filtered, fetched, results, ri, counters, clock>>

(* the persistence session opened while fetches are still running *)
OpenSession_Early ==
    /\ ppc = "fetching"
    /\ ppc' = "persisting"
    /\ UNCHANGED <<resolveVars, cliVars, raceVars, fetchVars, pollerVars, filterVars, indexVars, storeVars, insertVars, stations_tbl, pass_args, filtered,
                   futures, fetched, results, ri, counters, clock>>

(* line 154: every future is finished, the executor block ends and the     *)
(* persistence session is opened                                           *)
OpenSession ==
    /\ ppc = "fetching"
    /\ \A id \in DOMAIN futures : futures[id] # "running"
    /\ ppc' = "persisting"
    /\ UNCHANGED <<resolveVars, cliVars, raceVars, fetchVars, pollerVars, filterVars, indexVars, storeVars, insertVars, stations_tbl, pass_args, filtered,
                   futures, fetched, results, ri, counters, clock>>

(* lines 155-159: one iteration of the loop over results *)
PersistResult ==
    /\ ppc = "persisting"
    /\ ri < Len(results)
    /\ LET deps == results[ri + 1][2]
           r    == insert_departures(departures_raw, session_new, deps)
       IN  /\ session_new' = r.txn
           /\ counters' =
                 [ stations_processed |-> counters.stations_processed + 1,
                   rows_inserted      |-> counters.rows_inserted + r.inserted,
                   rows_skipped       |-> counters.rows_skipped + r.skipped ]
    /\ ri' = ri + 1
    /\ UNCHANGED <<resolveVars, cliVars, raceVars, fetchVars, pollerVars, filterVars, indexVars, departures_raw, insertVars, stations_tbl, ppc, pass_args,
                   filtered, futures, fetched, results, clock>>

(* lines 160-162: session.commit() and return of the counters *)
CommitPass ==
    /\ ppc = "persisting"
    /\ ri = Len(results)
    /\ departures_raw' = SessionCommit(departures_raw, session_new)
    /\ session_new' = <<>>
    /\ ppc' = "returned"
    /\ UNCHANGED <<resolveVars, cliVars, raceVars, fetchVars, pollerVars, filterVars, indexVars, insertVars, stations_tbl, pass_args, filtered, futures,
                   fetched, results, ri, counters, clock>>

----------------------------------------------------------------------------
(* poller.py: run_poller.  The ingestion pass the loop calls is seen here  *)
(* by its duration and by whether it returned or raised; the pass itself   *)
(* is SpecIngest.                                                          *)

MaxIters    == 9      \* iterations of the loop in one behaviour
MaxPassDur  == 2      \* longest duration of one pass, in seconds

BackoffFloor == 1     \* backoff = 1
BackoffCap   == 60    \* min(backoff * 2, 60)
DefaultPollingInterval == 300

PollIntervals == { 1, 3, DefaultPollingInterval }

Min(a, b) == IF a < b THEN a ELSE b
Max(a, b) == IF a > b THEN a ELSE b

(* a doubling that forgets the cap *)
NextBackoff_Uncapped(b) == b * 2

(* line 50: backoff = min(backoff * 2, 60) *)
NextBackoff(b) == Min(b * 2, BackoffCap)

(* a sleep time that is not clamped at zero *)
SleepTime_Unclamped(interval, elapsed) == interval - elapsed

(* lines 52-53: sleep_time = max(0.0, polling_interval_seconds - elapsed) *)
SleepTime(interval, elapsed) == Max(0, interval - elapsed)

PollerIdle ==
    /\ stop_flag = FALSE
    /\ backoff = BackoffFloor
    /\ lpc = "top"
    /\ now = 0
    /\ t0 = 0
    /\ sleep_time = 0
    /\ polling_interval_seconds = DefaultPollingInterval
    /\ fails = 0
    /\ iters = 0

(* lines 29-34: the handler of SIGINT and SIGTERM *)
HandleSig ==
    /\ lpc # "Stopped"
    /\ stop_flag' = TRUE
    /\ UNCHANGED <<backoff, lpc, now, t0, sleep_time,
                   polling_interval_seconds, fails, iters>>
    /\ UNCHANGED <<resolveVars, cliVars, raceVars, fetchVars, storeVars, insertVars, passVars, filterVars, indexVars>>

(* lines 37-39: the loop condition holds; t0 is taken and the pass starts *)
BeginIteration ==
    /\ lpc = "top"
    /\ ~stop_flag
    /\ iters < MaxIters
    /\ t0' = now
    /\ iters' = iters + 1
    /\ lpc' = "pass"
    /\ UNCHANGED <<stop_flag, backoff, now, sleep_time,
                   polling_interval_seconds, fails>>
    /\ UNCHANGED <<resolveVars, cliVars, raceVars, fetchVars, storeVars, insertVars, passVars, filterVars, indexVars>>

(* line 37: the loop condition fails; run_poller returns *)
ExitAtTop ==
    /\ lpc = "top"
    /\ stop_flag
    /\ lpc' = "Stopped"
    /\ UNCHANGED <<stop_flag, backoff, now, t0, sleep_time,
                   polling_interval_seconds, fails, iters>>
    /\ UNCHANGED <<resolveVars, cliVars, raceVars, fetchVars, storeVars, insertVars, passVars, filterVars, indexVars>>

(* lines 39-46: the pass returns after d seconds; backoff is reset *)
PassSucceeds ==
    /\ lpc = "pass"
    /\ \E d \in 0..MaxPassDur : now' = now + d
    /\ backoff' = BackoffFloor
    /\ fails' = 0
    /\ lpc' = "after"
    /\ UNCHANGED <<stop_flag, t0, sleep_time, polling_interval_seconds, iters>>
    /\ UNCHANGED <<resolveVars, cliVars, raceVars, fetchVars, storeVars, insertVars, passVars, filterVars, indexVars>>

(* a loop that lets the error of a pass end run_poller *)
PassRaises_Propagates ==
    /\ lpc = "pass"
    /\ \E d \in 0..MaxPassDur : now' = now + d
    /\ fails' = fails + 1
    /\ lpc' = "Stopped"
    /\ UNCHANGED <<stop_flag, backoff, t0, sleep_time,
                   polling_interval_seconds, iters>>
    /\ UNCHANGED <<resolveVars, cliVars, raceVars, fetchVars, storeVars, insertVars, passVars, filterVars, indexVars>>

(* lines 47-49: the pass raises after d seconds; time.sleep(backoff) begins *)
PassRaises ==
    /\ lpc = "pass"
    /\ \E d \in 0..MaxPassDur : now' = now + d
    /\ fails' = fails + 1
    /\ lpc' = "backoff_sleep"
    /\ UNCHANGED <<stop_flag, backoff, t0, sleep_time,
                   polling_interval_seconds, iters>>
    /\ UNCHANGED <<resolveVars, cliVars, raceVars, fetchVars, storeVars, insertVars, passVars, filterVars, indexVars>>

(* lines 49-50: time.sleep(backoff) returns; backoff is doubled up to the cap *)
BackoffSleepEnds ==
    /\ lpc = "backoff_sleep"
    /\ now' = now + backoff
    /\ backoff' = NextBackoff(backoff)
    /\ lpc' = "after"
    /\ UNCHANGED <<stop_flag, t0, sleep_time, polling_interval_seconds,
                   fails, iters>>
    /\ UNCHANGED <<resolveVars, cliVars, raceVars, fetchVars, storeVars, insertVars, passVars, filterVars, indexVars>>

(* a loop that sleeps without looking at the flag after the pass *)
BeginCadenceSleep_Unchecked ==
    /\ lpc = "after"
    /\ sleep_time' = SleepTime(polling_interval_seconds, now - t0)
    /\ lpc' = "cadence_sleep"
    /\ UNCHANGED <<stop_flag, backoff, now, t0, polling_interval_seconds,
                   fails, iters>>
    /\ UNCHANGED <<resolveVars, cliVars, raceVars, fetchVars, storeVars, insertVars, passVars, filterVars, indexVars>>

(* lines 52-57: elapsed and sleep_time are computed, the flag is clear and *)
(* time.sleep(sleep_time) begins                                           *)
BeginCadenceSleep ==
    /\ lpc = "after"
    /\ ~stop_flag
    /\ sleep_time' = SleepTime(polling_interval_seconds, now - t0)
    /\ lpc' = "cadence_sleep"
    /\ UNCHANGED <<stop_flag, backoff, now, t0, polling_interval_seconds,
                   fails, iters>>
    /\ UNCHANGED <<resolveVars, cliVars, raceVars, fetchVars, storeVars, insertVars, passVars, filterVars, indexVars>>

(* lines 52-56: elapsed and sleep_time are computed, the flag is set: break *)
ExitAfterPass ==
    /\ lpc = "after"
    /\ stop_flag
    /\ sleep_time' = SleepTime(polling_interval_seconds, now - t0)
    /\ lpc' = "Stopped"
    /\ UNCHANGED <<stop_flag, backoff, now, t0, polling_interval_seconds,
                   fails, iters>>
    /\ UNCHANGED <<resolveVars, cliVars, raceVars, fetchVars, storeVars, insertVars, passVars, filterVars, indexVars>>

(* line 57: time.sleep(sleep_time) returns *)
CadenceSleepEnds ==
    /\ lpc = "cadence_sleep"
    /\ now' = now + sleep_time
    /\ lpc' = "top"
    /\ UNCHANGED <<stop_flag, backoff, t0, sleep_time,
                   polling_interval_seconds, fails, iters>>
    /\ UNCHANGED <<resolveVars, cliVars, raceVars, fetchVars, storeVars, insertVars, passVars, filterVars, indexVars>>

----------------------------------------------------------------------------
(* Departures handed to insert_departures by a direct caller (as the       *)
(* test test_insert_departures_dedup does).                                *)

PlannedTimes == { None, Some(T0), Some(T0 + 600) }

(* Observations of one scheduled trip: 1 is the first sighting, 2 differs  *)
(* from 1 only in fetched_at, 3 differs in every non-key field.            *)
Observations == { 1, 2, 3 }

Observed(planned, o) ==
    Departure(S_s1,
              planned,
              IF o = 3 THEN Some(T0 + 360) ELSE Some(T0 + 300),
              IF o = 3 THEN Some(6) ELSE Some(5),
              Some(S_TRAM), Some(S_T17), Some(S_Central),
              o = 3,
              IF o = 3 THEN Some(<<"2">>) ELSE None,
              TRUE,
              IF o = 1 THEN T0 ELSE T0 + 60)

DepUniverse == { Observed(p, o) : p \in PlannedTimes, o \in Observations }

Batches == UNION { [1..n -> DepUniverse] : n \in 0..MaxBatch }

----------------------------------------------------------------------------
(* gtfs_index.py: build_label_index                                        *)

MaxRoutes == 2        \* rows of routes.txt

S_SBAHN == <<"S", "B", "A", "H", "N">>

(* dict.get(key): an Optional *)
DictGet(d, k) == IF k \in DOMAIN d THEN Some(d[k]) ELSE None

(* d.get(key, set()) and d.setdefault(key, set()).add(v) on set-valued dicts *)
DictGetSet(d, k) == IF k \in DOMAIN d THEN d[k] ELSE {}
DictAdd(d, k, v) ==
    [ x \in DOMAIN d \cup {k} |-> IF x = k THEN DictGetSet(d, k) \cup {v} ELSE d[x] ]

(* d[key] = v *)
DictSet(d, k, v) == [ x \in DOMAIN d \cup {k} |-> IF x = k THEN v ELSE d[x] ]

ROUTE_TYPE_TO_PRODUCT ==
    [ t \in { <<"0">>, <<"1">>, <<"2">>, <<"3">>, <<"9", "0", "0">> } |->
        CASE t = <<"0">> -> S_TRAM
          [] t = <<"1">> -> S_UBAHN
          [] t = <<"2">> -> S_SBAHN
          [] t = <<"3">> -> S_BUS
          [] t = <<"9", "0", "0">> -> S_TRAM ]

(* the characters of the model in the order of their code points *)
CodePoints ==
    << " ", "0", "1", "2", "3", "4", "5", "6", "7", "8", "9", ":" >>
    \o UpperAlpha \o LowerAlpha

Ord(c) == CHOOSE i \in 1..Len(CodePoints) : CodePoints[i] = c

(* str < str *)
RECURSIVE StrLess(_, _)
StrLess(a, b) ==
    IF b = <<>> THEN FALSE
    ELSE IF a = <<>> THEN TRUE
    ELSE IF Head(a) = Head(b) THEN StrLess(Tail(a), Tail(b))
    ELSE Ord(Head(a)) < Ord(Head(b))

(* sorted(set of str) *)
RECURSIVE sorted(_)
sorted(S) ==
    IF S = {} THEN <<>>
    ELSE LET m == CHOOSE x \in S : \A y \in S \ {x} : StrLess(x, y)
         IN  <<m>> \o sorted(S \ {m})

(* str.split(sep) *)
RECURSIVE str_split(_, _)
str_split(x, sep) ==
    IF \E i \in 1..Len(x) : x[i] = sep
    THEN LET i == CHOOSE k \in 1..Len(x) :
                     x[k] = sep /\ \A j \in 1..(k - 1) : x[j] # sep
         IN  <<SubSeq(x, 1, i - 1)>> \o str_split(SubSeq(x, i + 1, Len(x)), sep)
    ELSE <<x>>

(* sep.join(parts) *)
RECURSIVE str_join(_, _)
str_join(sep, parts) ==
    IF parts = <<>> THEN <<>>
    ELSE IF Len(parts) = 1 THEN parts[1]
    ELSE parts[1] \o <<sep>> \o str_join(sep, Tail(parts))

(* a key that is the identifier as it is *)
base3_Whole(x) == x

(* lines 164-166: base3 *)
base3(x) ==
    LET parts == str_split(x, ":")
    IN  IF Len(parts) >= 3 THEN str_join(":", SubSeq(parts, 1, 3)) ELSE x

(* rows of routes.txt, trips.txt, stop_times.txt and stops.txt; a column  *)
(* without a value reads as the empty string                               *)
RouteRow(route_id, route_type, route_short_name) ==
    [ route_id |-> route_id, route_type |-> route_type,
      route_short_name |-> route_short_name ]
TripRow(route_id, trip_id) == [ route_id |-> route_id, trip_id |-> trip_id ]
StopTimeRow(trip_id, stop_id) == [ trip_id |-> trip_id, stop_id |-> stop_id ]
StopRow(stop_id, parent_station) ==
    [ stop_id |-> stop_id, parent_station |-> parent_station ]

(* lines 108-109 *)
NormProducts(products) ==
    IF IsNone(products) \/ products[1] = {} THEN None
    ELSE Some({ str_upper(q) : q \in products[1] })
NormLabels(labels) ==
    IF IsNone(labels) \/ labels[1] = {} THEN None
    ELSE Some({ str_upper(str_strip(l)) : l \in labels[1] })

(* a lookup that files every route type it does not know under BUS *)
RouteProduct_Default(r) ==
    IF r.route_type \in DOMAIN ROUTE_TYPE_TO_PRODUCT
    THEN Some(ROUTE_TYPE_TO_PRODUCT[r.route_type]) ELSE Some(S_BUS)

(* line 121: ROUTE_TYPE_TO_PRODUCT.get(r.get("route_type", "")) *)
RouteProduct(r) == DictGet(ROUTE_TYPE_TO_PRODUCT, r.route_type)
RouteLabel(r) == str_upper(str_strip(r.route_short_name))

(* lines 118-132: the routes that pass the product and label filters *)
RECURSIVE RouteLoop(_, _, _, _, _)
RouteLoop(routes, products, labels, route_ids, route_product) ==
    IF routes = <<>>
    THEN [ route_ids |-> route_ids, route_product |-> route_product ]
    ELSE LET r       == Head(routes)
             r_type  == RouteProduct(r)
             r_label == RouteLabel(r)
             rid     == r.route_id
         IN  IF \/ ~IsNone(products) /\ (IsNone(r_type) \/ r_type[1] \notin products[1])
                \/ ~IsNone(labels) /\ r_label \notin labels[1]
                \/ rid = <<>>
             THEN RouteLoop(Tail(routes), products, labels, route_ids, route_product)
             ELSE RouteLoop(Tail(routes), products, labels,
                            route_ids \cup {rid},
                            IF IsNone(r_type) THEN route_product
                            ELSE DictSet(route_product, rid, r_type[1]))

(* lines 135-143: route_trips, with the order in which its keys were set *)
RECURSIVE TripLoop(_, _, _, _)
TripLoop(trips, route_ids, route_trips, order) ==
    IF trips = <<>>
    THEN [ route_trips |-> route_trips, order |-> order ]
    ELSE LET t == Head(trips)
         IN  IF t.route_id \notin route_ids \/ t.trip_id = <<>>
             THEN TripLoop(Tail(trips), route_ids, route_trips, order)
             ELSE TripLoop(Tail(trips), route_ids,
                           DictAdd(route_trips, t.route_id, t.trip_id),
                           IF t.route_id \in DOMAIN route_trips THEN order
                           ELSE Append(order, t.route_id))

(* lines 146-151: trip_stops *)
RECURSIVE StopTimeLoop(_, _)
StopTimeLoop(stop_times, trip_stops) ==
    IF stop_times = <<>> THEN trip_stops
    ELSE LET st == Head(stop_times)
         IN  StopTimeLoop(Tail(stop_times),
                          IF st.trip_id # <<>> /\ st.stop_id # <<>>
                          THEN DictAdd(trip_stops, st.trip_id, st.stop_id)
                          ELSE trip_stops)

(* lines 153-158: route_stops *)
RouteStops(route_trips, trip_stops) ==
    [ rid \in DOMAIN route_trips |->
        UNION { DictGetSet(trip_stops, tid) : tid \in route_trips[rid] } ]

(* lines 169-172: station_base3_map *)
RECURSIVE StationLoop(_, _)
StationLoop(stations, station_base3_map) ==
    IF stations = <<>> THEN station_base3_map
    ELSE StationLoop(Tail(stations),
                     DictAdd(station_base3_map, base3(Head(stations).id),
                             Head(stations).id))

(* line 177: stop_lookup *)
RECURSIVE StopLoop(_, _)
StopLoop(stops, stop_lookup) ==
    IF stops = <<>> THEN stop_lookup
    ELSE StopLoop(Tail(stops),
                  IF Head(stops).stop_id # <<>>
                  THEN DictSet(stop_lookup, Head(stops).stop_id, Head(stops))
                  ELSE stop_lookup)

(* mapping.setdefault(prod, {}).get(label, []) and mapping[prod][label] = v *)
MappingGet(mapping, prod, label) ==
    IF prod \in DOMAIN mapping /\ label \in DOMAIN mapping[prod]
    THEN mapping[prod][label] ELSE <<>>
MappingSet(mapping, prod, label, v) ==
    DictSet(mapping, prod,
            DictSet(IF prod \in DOMAIN mapping THEN mapping[prod] ELSE << >>,
                    label, v))

(* a list that is the sorted one turned around *)
SortedUnion_Descending(curr, selected_ids) ==
    LET asc == sorted(Range(curr) \cup selected_ids)
    IN  [ i \in 1..Len(asc) |-> asc[Len(asc) + 1 - i] ]

(* lines 201, 204: sorted(curr | set(selected_ids)) *)
SortedUnion(curr, selected_ids) == sorted(Range(curr) \cup selected_ids)

(* lines 186-195: the station ids selected for the stops of one route *)
SelectedIds(sids, stop_lookup, station_base3_map) ==
    LET known == { sid \in sids : sid \in DOMAIN stop_lookup }
        UseId(sid) ==
            LET parent == str_strip(stop_lookup[sid].parent_station)
            IN  IF parent # <<>> THEN parent ELSE sid
        base3_keys == { base3(UseId(sid)) : sid \in known }
    IN  UNION { DictGetSet(station_base3_map, k) : k \in base3_keys }

(* lines 179-205: one iteration per key of route_stops *)
RECURSIVE MappingLoop(_, _, _, _, _, _, _)
MappingLoop(order, route_stops, routes, route_product, stop_lookup, station_base3_map, mapping) ==
    IF order = <<>> THEN mapping
    ELSE LET rid   == Head(order)
             prod  == DictGet(route_product, rid)
             first == CHOOSE i \in 1..Len(routes) :
                         /\ routes[i].route_id = rid
                         /\ \A j \in 1..(i - 1) : routes[j].route_id # rid
             label == RouteLabel(routes[first])
             selected_ids == SelectedIds(route_stops[rid], stop_lookup, station_base3_map)
             m1 == MappingSet(mapping, prod[1], label,
                              SortedUnion(MappingGet(mapping, prod[1], label), selected_ids))
             m2 == MappingSet(m1, S_ALL, label,
                              SortedUnion(MappingGet(m1, S_ALL, label), selected_ids))
         IN  MappingLoop(Tail(order), route_stops, routes, route_product, stop_lookup,
                         station_base3_map,
                         IF label = <<>> \/ IsNone(prod) THEN mapping ELSE m2)

(* lines 96-209: the mapping built from the tables of the feed and the    *)
(* stations of the cache                                                   *)
build_label_index(feed, products, labels, stations) ==
    LET rl == RouteLoop(feed.routes, NormProducts(products), NormLabels(labels),
                        {}, << >>)
        tl == TripLoop(feed.trips, rl.route_ids, << >>, <<>>)
        trip_stops  == StopTimeLoop(feed.stop_times, << >>)
        route_stops == RouteStops(tl.route_trips, trip_stops)
    IN  MappingLoop(tl.order, route_stops, feed.routes, rl.route_product,
                    StopLoop(feed.stops, << >>), StationLoop(stations, << >>), << >>)

----------------------------------------------------------------------------
(* The feeds, filters and station cache the index is built from           *)

S_d91k == <<"d", ":", "9", ":", "1", ":", "k">>
S_d92  == <<"d", ":", "9", ":", "2">>
S_q    == <<"q">>
S_d91a == <<"d", ":", "9", ":", "1", ":", "a">>
S_r1   == <<"r", "1">>
S_r2   == <<"r", "2">>
S_t1   == <<"t", "1">>
S_t2   == <<"t", "2">>

(* the stations of the cache handed to the builder, not in sorted order *)
GtfsStationCache ==
    << Station(S_q, <<"Q">>, Some(<<S_BUS>>)),
       Station(S_d92, <<"T", "w", "o">>, Some(<<S_TRAM>>)),
       Station(S_d91k, <<"O", "n", "e">>, Some(<<S_TRAM>>)) >>

(* tram 19, bus 19 with blanks, a route of a type that is not in the      *)
(* table, tram n1 under type 900, a route without a short name             *)
RouteUniverse ==
    { RouteRow(S_r1, <<"0">>, S_19),
      RouteRow(S_r2, <<"3">>, <<" ", "1", "9", " ">>),
      RouteRow(S_r2, <<"7">>, S_19),
      RouteRow(S_r1, <<"9", "0", "0">>, <<"n", "1">>),
      RouteRow(S_r2, <<"0">>, <<>>) }

TripUniverse ==
    << TripRow(S_r1, S_t1), TripRow(S_r1, S_t2), TripRow(S_r2, S_t2) >>

StopTimeUniverse ==
    << StopTimeRow(S_t1, S_d91a), StopTimeRow(S_t2, S_q) >>

(* the lists made of some of the rows of a list, in its order *)
RECURSIVE SubSeqs(_)
SubSeqs(rows) ==
    IF rows = <<>> THEN { <<>> }
    ELSE LET rest == SubSeqs(Tail(rows))
         IN  rest \cup { <<Head(rows)>> \o t : t \in rest }

RouteLists == UNION { [1..n -> RouteUniverse] : n \in 0..MaxRoutes }

StopLists ==
    { a \o b : a \in { <<>>, << StopRow(S_d91a, <<>>) >>,
                         << StopRow(S_d91a, <<" ", "d", ":", "9", ":", "2", " ">>) >> },
               b \in { <<>>, << StopRow(S_q, <<>>) >> } }

EmptyFeed == [ routes |-> <<>>, trips |-> <<>>, stop_times |-> <<>>, stops |-> <<>> ]

Feeds ==
    [ routes : RouteLists, trips : SubSeqs(TripUniverse),
      stop_times : SubSeqs(StopTimeUniverse), stops : StopLists ]

IndexArgs ==
    [ products : { None, Some({S_tram}) },
      labels : { None, Some({<<" ", "1", "9">>}) } ]

ArchiveFailures == { "unreachable", "malformed", "missing_table" }

GtfsSource == <<"g", "t", "f", "s">>

(* GtfsIndex and GtfsIndex.to_json: the document with the keys mapping    *)
(* and source                                                              *)
GtfsIndex(mapping, source) == [ mapping |-> mapping, source |-> source ]
to_json(idx) == [ doc |-> "object", mapping |-> idx.mapping, source |-> idx.source ]

----------------------------------------------------------------------------
(* cli.py: the command build_label_index                                   *)

MaxRuns == 2          \* invocations of the command in one behaviour

IndexIdle ==
    /\ gtfs_archive = "ok"
    /\ gtfs = EmptyFeed
    /\ index_args = [ products |-> None, labels |-> None ]
    /\ index = None
    /\ out_file = None
    /\ cpc = "ready"
    /\ runs = 0

(* a command that writes an empty index when the archive cannot be read *)
BuildAborts_WritesEmpty ==
    /\ cpc = "ready"
    /\ gtfs_archive \in ArchiveFailures
    /\ out_file' = Some(to_json(GtfsIndex(<< >>, GtfsSource)))
    /\ cpc' = "failed"
    /\ UNCHANGED <<gtfs_archive, gtfs, index_args, index, runs>>
    /\ UNCHANGED <<resolveVars, cliVars, raceVars, fetchVars, storeVars, insertVars, passVars, pollerVars, filterVars>>

(* cli.py line 32, gtfs_index.py lines 111-115: opening the archive or    *)
(* reading one of its four tables raises; the command ends with the error  *)
BuildAborts ==
    /\ cpc = "ready"
    /\ gtfs_archive \in ArchiveFailures
    /\ cpc' = "failed"
    /\ UNCHANGED <<gtfs_archive, gtfs, index_args, index, out_file, runs>>
    /\ UNCHANGED <<resolveVars, cliVars, raceVars, fetchVars, storeVars, insertVars, passVars, pollerVars, filterVars>>

(* cli.py line 32: build_label_index returns the index *)
BuildIndex ==
    /\ cpc = "ready"
    /\ gtfs_archive = "ok"
    /\ index' = Some(GtfsIndex(build_label_index(gtfs, index_args.products,
                                                index_args.labels, GtfsStationCache),
                              GtfsSource))
    /\ cpc' = "built"
    /\ UNCHANGED <<gtfs_archive, gtfs, index_args, out_file, runs>>
    /\ UNCHANGED <<resolveVars, cliVars, raceVars, fetchVars, storeVars, insertVars, passVars, pollerVars, filterVars>>

(* cli.py line 33: write_label_index(index, out) *)
WriteIndex ==
    /\ cpc = "built"
    /\ out_file' = Some(to_json(index[1]))
    /\ cpc' = "written"
    /\ UNCHANGED <<gtfs_archive, gtfs, index_args, index, runs>>
    /\ UNCHANGED <<resolveVars, cliVars, raceVars, fetchVars, storeVars, insertVars, passVars, pollerVars, filterVars>>

(* the command is invoked again, with the same options, when the archive  *)
(* can no longer be read                                                   *)
RunAgain ==
    /\ cpc \in { "written", "failed" }
    /\ runs < MaxRuns
    /\ gtfs_archive' \in ArchiveFailures
    /\ gtfs' = EmptyFeed
    /\ index' = None
    /\ cpc' = "ready"
    /\ runs' = runs + 1
    /\ UNCHANGED <<index_args, out_file>>
    /\ UNCHANGED <<resolveVars, cliVars, raceVars, fetchVars, storeVars, insertVars, passVars, pollerVars, filterVars>>

----------------------------------------------------------------------------
(* Stations and product sets handed to filter_stations_by_products by a    *)
(* direct caller (as the test test_filter_stations_by_products does).      *)

MaxStations == 3      \* longest station list handed to the filter

S_s4   == <<"s", "4">>
S_s5   == <<"s", "5">>
S_s6   == <<"s", "6">>

FilterStations ==
    Range(StationCache) \cup
    { Station(S_s4, <<"D", "e", "l", "t", "a">>, None),
      Station(S_s5, <<"E", "p", "s">>, Some(<<S_tram>>)),
      Station(S_s6, <<"Z", "e", "t", "a">>, Some(<<>>)) }

StationLists == UNION { [1..n -> FilterStations] : n \in 0..MaxStations }

FilterProducts ==
    { None, Some({}), Some({S_ALL}), Some({S_ALL, S_TRAM}), Some({S_TRAM}),
      Some({S_tram}), Some({S_BUS, S_UBAHN}), Some({<<"a", "l", "l">>}) }

FilterIdle ==
    /\ arg_stations = <<>>
    /\ arg_products = None
    /\ ret_stations = <<>>
    /\ fpc = "ready"

(* filtered = filter_stations_by_products(stations, products) *)
CallFilter ==
    /\ fpc = "ready"
    /\ ret_stations' = filter_stations_by_products(arg_stations, arg_products)
    /\ fpc' = "returned"
    /\ UNCHANGED <<arg_stations, arg_products>>
    /\ UNCHANGED <<resolveVars, cliVars, raceVars, fetchVars, storeVars, insertVars, passVars, pollerVars, indexVars>>

----------------------------------------------------------------------------
(* departures.py.  Python integers are unbounded and Python floats are     *)
(* IEEE doubles with a 53-bit significand; the values handled here exceed  *)
(* the range of the checker's integers, so an integer is kept as a sign    *)
(* and a magnitude hi * Base + lo with 0 <= lo < Base.                     *)

Base == 1000000000

Num(neg, hi, lo) == [ neg |-> neg, hi |-> hi, lo |-> lo ]
SmallNum(n) == Num(FALSE, n \div Base, n % Base)
NumToInt(a) == IF a.neg THEN 0 - (a.hi * Base + a.lo) ELSE a.hi * Base + a.lo
IsZero(a) == a.hi = 0 /\ a.lo = 0

(* |a| < |b| *)
MagLess(a, b) == a.hi < b.hi \/ (a.hi = b.hi /\ a.lo < b.lo)

(* a > b, for b >= 0 (line 21 compares with the positive threshold) *)
NumGreater(a, b) == ~a.neg /\ MagLess(b, a)

(* the magnitude of a increased by k, 0 <= k < Base *)
MagAdd(a, k) ==
    IF a.lo + k >= Base THEN Num(a.neg, a.hi + 1, a.lo + k - Base)
    ELSE Num(a.neg, a.hi, a.lo + k)

(* 2^53 .. 2^60: up to the first every integer is a double, and from each  *)
(* on the spacing between neighbouring doubles is twice as wide            *)
DoubleLimits ==
    << Num(FALSE, 9007199, 254740992),    Num(FALSE, 18014398, 509481984),
       Num(FALSE, 36028797, 18963968),    Num(FALSE, 72057594, 37927936),
       Num(FALSE, 144115188, 75855872),   Num(FALSE, 288230376, 151711744),
       Num(FALSE, 576460752, 303423488),  Num(FALSE, 1152921504, 606846976) >>

RECURSIVE Pow2Int(_)
Pow2Int(k) == IF k = 0 THEN 1 ELSE 2 * Pow2Int(k - 1)

(* the exponent k of the spacing 2^k between the doubles around a *)
SpacingExp(a) ==
    Cardinality({ i \in 1..Len(DoubleLimits) : ~MagLess(a, DoubleLimits[i]) })

(* float(i) for an integer i: the nearest double, the one with the even    *)
(* significand on a tie.  2^k divides Base for the spacings that occur, so *)
(* the remainder is that of lo.                                            *)
float_of_int(a) ==
    LET k    == SpacingExp(a)
        q    == Pow2Int(k)
        r    == a.lo % q
        down == Num(a.neg, a.hi, a.lo - r)
        up   == MagAdd(down, q)
    IN  IF r = 0 THEN a
        ELSE IF 2 * r < q THEN down
        ELSE IF 2 * r > q THEN up
        ELSE IF (a.lo - r) % (2 * q) = 0 THEN down
        ELSE up

(* a // 1000 for a >= 0 *)
FloorDiv1000(a) ==
    Num(a.neg, a.hi \div 1000, (a.hi % 1000) * 1000000 + (a.lo \div 1000))

(* the threshold of line 21 *)
MsThreshold == Num(FALSE, 10, 0)

(* Values an upstream JSON field can hold, as far as they are modelled:    *)
(* None, an integer, a string.                                             *)
PyNone == [ kind |-> "none" ]
PyInt(a) == [ kind |-> "int", num |-> a ]
PyStr(text) == [ kind |-> "str", text |-> text ]

(* truth value of `x or y`: None, 0 and "" are false *)
Falsy(x) ==
    \/ x.kind = "none"
    \/ x.kind = "int" /\ IsZero(x.num)
    \/ x.kind = "str" /\ x.text = << >>

PyOr(x, y) == IF Falsy(x) THEN y ELSE x

Digits == { "0", "1", "2", "3", "4", "5", "6", "7", "8", "9" }
DigitVal(c) == CHOOSE n \in 0..9 : << "0", "1", "2", "3", "4", "5", "6", "7", "8", "9" >>[n + 1] = c

IsDigits(text) == Len(text) > 0 /\ \A i \in 1..Len(text) : text[i] \in Digits

(* the number written by at most nine digits *)
RECURSIVE DigitsToInt(_)
DigitsToInt(text) ==
    IF text = << >> THEN 0
    ELSE 10 * DigitsToInt(SubSeq(text, 1, Len(text) - 1)) + DigitVal(text[Len(text)])

(* the number written by a string of digits *)
DigitsToNum(text) ==
    LET n == Len(text)
    IN  IF n <= 9 THEN Num(FALSE, 0, DigitsToInt(text))
        ELSE Num(FALSE, DigitsToInt(SubSeq(text, 1, n - 9)), DigitsToInt(SubSeq(text, n - 8, n)))

(* position of the first "." of text, 0 when there is none *)
DotAt(text) ==
    IF \E i \in 1..Len(text) : text[i] = "."
    THEN CHOOSE i \in 1..Len(text) : text[i] = "." /\ \A j \in 1..(i - 1) : text[j] # "."
    ELSE 0

(* int(float(value)) of line 17: None when it raises.  float() of a string *)
(* strips white space and reads digits with an optional fraction, which    *)
(* int() cuts off; any other text raises ValueError.                       *)
int_float(value) ==
    IF value.kind = "int" THEN Some(float_of_int(value.num))
    ELSE LET t == str_strip(value.text)
             d == DotAt(t)
         IN  IF d = 0
             THEN IF IsDigits(t) THEN Some(float_of_int(DigitsToNum(t))) ELSE None
             ELSE IF IsDigits(SubSeq(t, 1, d - 1)) /\ IsDigits(SubSeq(t, d + 1, Len(t)))
                  THEN Some(float_of_int(DigitsToNum(SubSeq(t, 1, d - 1))))
                  ELSE None

(* def _normalize_epoch_seconds(value), lines 12-23 *)
_normalize_epoch_seconds(value) ==
    IF value.kind = "none" THEN None
    ELSE LET ivalue == int_float(value)
         IN  IF ivalue = None THEN None
             ELSE IF NumGreater(ivalue[1], MsThreshold) THEN Some(FloorDiv1000(ivalue[1]))
             ELSE ivalue

(* `x or y` on a delay field: None and 0 are false *)
DelayOr(x, y) == IF x = None \/ x = Some(0) THEN y ELSE x

(* int(round(d / 60)) of line 53: Python rounds a tie to the even integer *)
PyRoundDiv60(d) ==
    LET q == d \div 60
        r == d % 60
    IN  IF r < 30 THEN q
        ELSE IF r > 30 THEN q + 1
        ELSE IF q % 2 = 0 THEN q ELSE q + 1

(* one record of the upstream answer: both spellings of the three fields *)
Item(planned_s, planned_c, realtime_s, realtime_c, delay_s, delay_c) ==
    [ planned_departure_time  |-> planned_s,
      plannedDepartureTime    |-> planned_c,
      realtime_departure_time |-> realtime_s,
      realtimeDepartureTime   |-> realtime_c,
      delay_in_minutes        |-> delay_s,
      delayInMinutes          |-> delay_c ]

OptInt(o) == IF o = None THEN None ELSE Some(NumToInt(o[1]))

(* the body of the loop of fetch_departures, lines 44-70, for one item *)
fetch_departure(station_id, it, fetched_at) ==
    LET planned  == OptInt(_normalize_epoch_seconds(
                        PyOr(it.planned_departure_time, it.plannedDepartureTime)))
        realtime == OptInt(_normalize_epoch_seconds(
                        PyOr(it.realtime_departure_time, it.realtimeDepartureTime)))
        delay0   == DelayOr(it.delay_in_minutes, it.delayInMinutes)
        delay    == IF delay0 = None /\ planned # None /\ realtime # None
                    THEN Some(PyRoundDiv60(realtime[1] - planned[1]))
                    ELSE delay0
    IN  Departure(station_id, planned, realtime, delay, Some(S_TRAM), Some(S_T17),
                  Some(S_Central), FALSE, None, TRUE, fetched_at)

(* Arguments of _normalize_epoch_seconds: the values of the test, both     *)
(* sides of the threshold, integers past 2^53, and strings.                *)
S_1700000000 == << "1", "7", "0", "0", "0", "0", "0", "0", "0", "0" >>

NormalizeArgs ==
    { PyNone,
      PyInt(SmallNum(0)),
      PyInt(SmallNum(T0)),
      PyInt(Num(TRUE, 0, 5)),
      PyInt(Num(FALSE, 10, 0)),
      PyInt(Num(FALSE, 10, 1)),
      PyInt(Num(FALSE, 1700, 0)),
      PyInt(Num(FALSE, 9007199, 254740992)),
      PyInt(Num(FALSE, 9007199, 254740999)),
      PyInt(Num(FALSE, 9007199, 254741001)),
      PyInt(Num(FALSE, 18014398, 509481986)),
      PyStr(S_1700000000),
      PyStr(<< " ", "1", "7", " " >>),
      PyStr(<< "1", ".", "5" >>),
      PyStr(<< "a", "b", "c" >>),
      PyStr(<< >>) }

(* Upstream records: planned absent, T, T in milliseconds or 0; realtime   *)
(* absent or T plus an offset, in seconds, milliseconds or as a string;    *)
(* delay absent, 0 or another value; all under one of the two spellings.   *)
PlannedValues  == { PyNone, PyInt(SmallNum(T0)), PyInt(Num(FALSE, 1700, 0)),
                    PyInt(SmallNum(0)) }
RealtimeValues == { PyNone, PyInt(SmallNum(T0 + 30)), PyInt(SmallNum(T0 + 90)),
                    PyInt(SmallNum(T0 + 300)), PyInt(SmallNum(T0 - 90)),
                    PyInt(Num(FALSE, 1700, 300000)), PyStr(S_1700000000) }
DelayValues    == { None, Some(0), Some(3), Some(0 - 2) }

Items ==
    { Item(p, PyNone, r, PyNone, d, None) :
          p \in PlannedValues, r \in RealtimeValues, d \in DelayValues }
    \cup
    { Item(PyNone, p, PyNone, r, None, d) :
          p \in PlannedValues, r \in RealtimeValues, d \in DelayValues }

FetchIdle ==
    /\ norm_arg = PyNone
    /\ norm_ret = None
    /\ item = Item(PyNone, PyNone, PyNone, PyNone, None, None)
    /\ dep = None
    /\ dpc = "ready"

(* norm_ret = _normalize_epoch_seconds(norm_arg) *)
CallNormalize ==
    /\ dpc = "ready"
    /\ norm_ret' = _normalize_epoch_seconds(norm_arg)
    /\ dpc' = "normalized"
    /\ UNCHANGED <<norm_arg, item, dep>>
    /\ UNCHANGED <<resolveVars, cliVars, raceVars, storeVars, insertVars, passVars, pollerVars, filterVars, indexVars>>

(* fetch_departures(S_s1) on an answer holding `item` *)
CallFetch ==
    /\ dpc = "ready"
    /\ dep' = Some(fetch_departure(S_s1, item, T0))
    /\ dpc' = "fetched"
    /\ UNCHANGED <<norm_arg, norm_ret, item>>
    /\ UNCHANGED <<resolveVars, cliVars, raceVars, storeVars, insertVars, passVars, pollerVars, filterVars, indexVars>>

----------------------------------------------------------------------------
(* Two ingestion passes whose persistence phases overlap on one store      *)
(* (ingest.py lines 154-160 and 65-90, run by two processes).  The store   *)
(* is the sqlite database of the default db_url (config.py line 17): a     *)
(* session takes the database write lock with the first INSERT of a        *)
(* transaction and holds it until it commits or rolls back; an INSERT of   *)
(* the other session waits for the lock, and fails with OperationalError   *)
(* ("database is locked") when the wait outlasts the busy timeout.         *)

MaxRaceDeps == 2      \* departures each of the two passes persists

Passes == { 1, 2 }
OtherPass(p) == 3 - p

(* the departures of station s1 the two passes may have fetched: two       *)
(* scheduled trips, observed at the fetch time of the pass                 *)
RaceUniverse(p) ==
    { Fetched(S_s1, Some(T0), Some(S_T17), FetchTime(p)),
      Fetched(S_s1, Some(T0), Some(S_19), FetchTime(p)) }

RaceDeps(p) == UNION { [1..n -> RaceUniverse(p)] : n \in 0..MaxRaceDeps }

RaceIdle ==
    /\ race_deps = [ p \in Passes |-> <<>> ]
    /\ race_pos = [ p \in Passes |-> 0 ]
    /\ race_txn = [ p \in Passes |-> <<>> ]
    /\ race_out = [ p \in Passes |-> <<>> ]
    /\ race_pc = [ p \in Passes |-> "returned" ]
    /\ race_lock = 0

(* a session that undoes only the rejected INSERT *)
RaceRollback_RowLevel(txn) == txn

(* session.rollback() of line 88 in the session of a pass *)
RaceRollback(txn) == SessionRollback(txn)

(* lines 69-89: one iteration of the loop of insert_departures in pass p,  *)
(* when the write lock is free or held by p                                *)
RaceInsert(p) ==
    /\ race_pc[p] = "persisting"
    /\ race_pos[p] < Len(race_deps[p])
    /\ race_lock \in { 0, p }
    /\ LET d   == race_deps[p][race_pos[p] + 1]
           rec == DepartureRawOrm(d, NextId(departures_raw, race_txn[p]))
       IN  IF FlushRaises(departures_raw, race_txn[p], rec)
           THEN /\ race_txn' = [ race_txn EXCEPT ![p] = RaceRollback(race_txn[p]) ]
                /\ race_lock' = IF RaceRollback(race_txn[p]) = <<>> THEN 0 ELSE p
                /\ race_out' = [ race_out EXCEPT ![p] = Append(@, "skipped") ]
           ELSE /\ race_txn' = [ race_txn EXCEPT ![p] = SessionFlush(race_txn[p], rec) ]
                /\ race_lock' = p
                /\ race_out' = [ race_out EXCEPT ![p] = Append(@, "inserted") ]
    /\ race_pos' = [ race_pos EXCEPT ![p] = @ + 1 ]
    /\ UNCHANGED <<race_deps, race_pc, departures_raw, session_new>>
    /\ UNCHANGED <<resolveVars, cliVars, fetchVars, insertVars, passVars, pollerVars, filterVars, indexVars>>

(* line 85: the flush of pass p waits for the lock held by the other pass  *)
(* longer than the busy timeout; OperationalError is not caught by line    *)
(* 87, leaves the with-block of line 154 and ends the pass                 *)
RaceLockTimeout(p) ==
    /\ race_pc[p] = "persisting"
    /\ race_pos[p] < Len(race_deps[p])
    /\ race_lock = OtherPass(p)
    /\ race_pc' = [ race_pc EXCEPT ![p] = "failed" ]
    /\ UNCHANGED <<race_deps, race_pos, race_txn, race_out, race_lock, storeVars>>
    /\ UNCHANGED <<resolveVars, cliVars, fetchVars, insertVars, passVars, pollerVars, filterVars, indexVars>>

(* line 160: session.commit() of pass p, and its return *)
RaceCommit(p) ==
    /\ race_pc[p] = "persisting"
    /\ race_pos[p] = Len(race_deps[p])
    /\ race_lock \in { 0, p }
    /\ departures_raw' = SessionCommit(departures_raw, race_txn[p])
    /\ race_txn' = [ race_txn EXCEPT ![p] = <<>> ]
    /\ race_lock' = 0
    /\ race_pc' = [ race_pc EXCEPT ![p] = "returned" ]
    /\ UNCHANGED <<race_deps, race_pos, race_out, session_new>>
    /\ UNCHANGED <<resolveVars, cliVars, fetchVars, insertVars, passVars, pollerVars, filterVars, indexVars>>

----------------------------------------------------------------------------
(* cli.py: the commands ingest (lines 83-128) and poll (lines 131-170).    *)
(* Options arrive as strings; the commands split them at commas.           *)

O_TRAM  == S_TRAM
O_ubahn == << "u", "b", "a", "h", "n" >>
O_19    == S_19
O_BETA  == << " ", "B", "E", "T", "A" >>
O_s1s3  == << "s", "1", ",", " ", "s", "3" >>

(* x.split(",") as a set *)
SplitSet(x) == Range(str_split(x, ","))

(* {p.strip().upper() for p in products.split(",") if p.strip()} *)
ProductSet(products) ==
    { str_upper(str_strip(p)) : p \in { q \in SplitSet(products) : str_strip(q) # << >> } }

(* {s.strip() for s in x.split(",")} if x else None *)
StripSet(opt) ==
    IF opt = None \/ opt[1] = << >> THEN None
    ELSE Some({ str_strip(x) : x \in SplitSet(opt[1]) })

(* the options of one command line *)
Options(products, labels, station_names, station_ids, use_label_index) ==
    [ products |-> products, labels |-> labels, station_names |-> station_names,
      station_ids |-> station_ids, use_label_index |-> use_label_index ]

(* command lines: each filter option is given in some and left out in      *)
(* others, with and without the label index                                *)
CliOptions ==
    { Options(O_TRAM, None, None, None, FALSE),
      Options(O_TRAM, Some(O_19), Some(O_BETA), None, TRUE),
      Options(O_TRAM, Some(O_19), Some(O_BETA), Some(O_s1s3), TRUE),
      Options(O_ubahn, None, None, Some(O_s1s3), FALSE),
      Options(O_ubahn, Some(O_19), None, None, FALSE) }

(* what the file at label_index_path may hold: an index that lists s1      *)
(* under TRAM and ALL for label 19, or one that lists no label             *)
IndexFiles ==
    { to_json(GtfsIndex(<< >>, GtfsSource)),
      to_json(GtfsIndex(MappingSet(MappingSet(<< >>, S_TRAM, S_19, << S_s1 >>),
                                   S_ALL, S_19, << S_s1 >>),
                        GtfsSource)) }

(* gtfs_index.py lines 217-218: load_label_index; the mapping of the index *)
load_label_index(file) == GtfsIndex(file.mapping, file.source)

(* the command reads the label index: lines 105 and 152 *)
ReadsIndex(opts) == opts.use_label_index /\ StripSet(opts.labels) # None

(* lines 103-115 and 150-162: resolved_station_ids *)
ResolvedStationIds(opts, file) ==
    LET product_set == ProductSet(opts.products)
        label_set   == StripSet(opts.labels)
        given       == StripSet(opts.station_ids)
    IN  IF ReadsIndex(opts)
        THEN LET mapping == load_label_index(file).mapping
                 prods   == IF product_set = {} THEN { S_ALL } ELSE product_set
                 found   == UNION { Range(MappingGet(mapping, prod, str_upper(lab))) :
                                       prod \in prods, lab \in label_set[1] }
             IN  Some(found \cup (IF given = None THEN {} ELSE given[1]))
        ELSE given

(* lines 117-125: the arguments ingest hands to the pipeline *)
IngestArgs(opts, file) ==
    [ products      |-> Some(ProductSet(opts.products)),
      labels        |-> StripSet(opts.labels),
      station_names |-> StripSet(opts.station_names),
      station_ids   |-> ResolvedStationIds(opts, file) ]

PollArgs_Scoped(opts, file) ==
    [ products      |-> Some(ProductSet(opts.products)),
      labels        |-> StripSet(opts.labels),
      station_names |-> StripSet(opts.station_names),
      station_ids   |-> ResolvedStationIds(opts, file) ]

(* line 170 and poller.py lines 40-42: run_poller gets product_set only    *)
(* and calls the pipeline with products alone                              *)
PollArgs(opts, file) ==
    [ products      |-> Some(ProductSet(opts.products)),
      labels        |-> None,
      station_names |-> None,
      station_ids   |-> None ]

CliIdle ==
    /\ cli_cmd = "ingest"
    /\ cli_opts = Options(O_TRAM, None, None, None, FALSE)
    /\ cli_index = None
    /\ cli_call = None
    /\ cli_pc = "ready"

(* lines 106 and 153: the index file is missing and load_label_index       *)
(* raises; the command ends before any pass                                *)
CliFails ==
    /\ cli_pc = "ready"
    /\ ReadsIndex(cli_opts)
    /\ cli_index = None
    /\ cli_pc' = "failed"
    /\ UNCHANGED <<cli_cmd, cli_opts, cli_index, cli_call, passVars>>
    /\ UNCHANGED <<resolveVars, raceVars, fetchVars, storeVars, insertVars, pollerVars, filterVars, indexVars>>

(* ingest: lines 99-125, up to the fetches the pipeline submits *)
RunIngest ==
    /\ cli_pc = "ready"
    /\ cli_cmd = "ingest"
    /\ ReadsIndex(cli_opts) => cli_index # None
    /\ LET args == IngestArgs(cli_opts, IF cli_index = None THEN cli_index ELSE cli_index[1])
       IN  /\ cli_call' = Some(args)
           /\ BeginPass(args)
    /\ cli_pc' = "called"
    /\ UNCHANGED <<cli_cmd, cli_opts, cli_index>>
    /\ UNCHANGED <<resolveVars, raceVars, fetchVars, storeVars, insertVars, pollerVars, filterVars, indexVars>>

(* poll: lines 145-170 and the first pass of run_poller *)
RunPoll ==
    /\ cli_pc = "ready"
    /\ cli_cmd = "poll"
    /\ ReadsIndex(cli_opts) => cli_index # None
    /\ LET args == PollArgs(cli_opts, IF cli_index = None THEN cli_index ELSE cli_index[1])
       IN  /\ cli_call' = Some(args)
           /\ BeginPass(args)
    /\ cli_pc' = "called"
    /\ UNCHANGED <<cli_cmd, cli_opts, cli_index>>
    /\ UNCHANGED <<resolveVars, raceVars, fetchVars, storeVars, insertVars, pollerVars, filterVars, indexVars>>

(* poller.py lines 37-42: the loop of run_poller starts its next pass with *)
(* the same arguments                                                      *)
PollNextPass ==
    /\ cli_pc = "called"
    /\ cli_cmd = "poll"
    /\ ppc = "returned"
    /\ BeginPass(cli_call[1])
    /\ UNCHANGED cliVars
    /\ UNCHANGED <<resolveVars, raceVars, fetchVars, storeVars, insertVars, pollerVars, filterVars, indexVars>>

----------------------------------------------------------------------------
(* print_label_stations.py lines 9-22: resolve_stations_for_labels         *)

(* the union without the ALL partition *)
resolve_stations_for_labels_NoAll(file, products, labels) ==
    LET idx   == load_label_index(file)
        prods == { str_upper(str_strip(p)) : p \in products }
        labs  == { str_upper(str_strip(l)) : l \in labels }
    IN  sorted(UNION { Range(MappingGet(idx.mapping, prod, lab)) :
                          prod \in prods, lab \in labs })

resolve_stations_for_labels(file, products, labels) ==
    LET idx   == load_label_index(file)
        prods == { str_upper(str_strip(p)) : p \in products }
        labs  == { str_upper(str_strip(l)) : l \in labels }
        out1  == UNION { Range(MappingGet(idx.mapping, prod, lab)) :
                            prod \in prods, lab \in labs }
        out2  == UNION { Range(MappingGet(idx.mapping, S_ALL, lab)) : lab \in labs }
    IN  sorted(out1 \cup out2)

(* the products and labels a caller asks for *)
ResolveProducts == { {}, { <<" ", "t", "r", "a", "m">> }, { S_BUS, S_UBAHN } }
ResolveLabels   == { { <<" ", "1", "9">> }, { S_19, <<"n", "1">> } }

(* an index file that build_label_index did not produce: its ALL partition *)
(* lacks stations of the TRAM partition, whose list is not sorted          *)
ForeignIndexFiles ==
    { to_json(GtfsIndex(MappingSet(MappingSet(<< >>, S_TRAM, S_19, << S_q, S_d92 >>),
                                   S_ALL, S_19, << S_d91k >>),
                        GtfsSource)) }

ResolveIdle ==
    /\ res_args = [ products |-> {}, labels |-> {} ]
    /\ res_ret = None

(* cli.py lines 195-206: the command print-label-stations calls            *)
(* resolve_stations_for_labels once on the index file                      *)
ResolveStations ==
    /\ out_file # None
    /\ res_ret = None
    /\ \E products \in ResolveProducts, labels \in ResolveLabels :
          /\ res_args' = [ products |-> products, labels |-> labels ]
          /\ res_ret' = Some(resolve_stations_for_labels(out_file[1], products, labels))
    /\ UNCHANGED <<cliVars, raceVars, fetchVars, storeVars, insertVars, passVars, pollerVars, filterVars, indexVars>>

----------------------------------------------------------------------------
(* Specification SpecInsert: a caller opens a session, calls               *)
(* insert_departures once and commits (tests/test_stations_and_ingest.py)  *)

InitInsert ==
    /\ ResolveIdle
    /\ CliIdle
    /\ RaceIdle
    /\ FetchIdle
    /\ departures_raw = <<>>
    /\ session_new = <<>>
    /\ call_deps = <<>>
    /\ call_ret = <<0, 0>>
    /\ ipc = "idle"
    /\ PassIdle
    /\ PollerIdle
    /\ FilterIdle
    /\ IndexIdle

(* with Session() as session: ins, skip = insert_departures(session, deps) *)
CallInsertDepartures ==
    /\ ipc = "idle"
    /\ \E deps \in Batches :
          /\ Len(departures_raw) + Len(deps) <= MaxRows
          /\ LET r == insert_departures(departures_raw, session_new, deps)
             IN  /\ session_new' = r.txn
                 /\ call_ret' = <<r.inserted, r.skipped>>
          /\ call_deps' = deps
    /\ ipc' = "inserted"
    /\ UNCHANGED <<resolveVars, cliVars, raceVars, fetchVars, departures_raw, passVars, pollerVars, filterVars, indexVars>>

(* session.commit() and the end of the with block *)
CommitSession ==
    /\ ipc = "inserted"
    /\ departures_raw' = SessionCommit(departures_raw, session_new)
    /\ session_new' = <<>>
    /\ ipc' = "idle"
    /\ UNCHANGED <<resolveVars, cliVars, raceVars, fetchVars, call_deps, call_ret, passVars, pollerVars, filterVars, indexVars>>

NextInsert == CallInsertDepartures \/ CommitSession

SpecInsert == InitInsert /\ [][NextInsert]_vars

----------------------------------------------------------------------------
(* Specification SpecIngest: repeated ingestion passes over one store *)

InitIngest ==
    /\ ResolveIdle
    /\ CliIdle
    /\ RaceIdle
    /\ FetchIdle
    /\ departures_raw = <<>>
    /\ session_new = <<>>
    /\ call_deps = <<>>
    /\ call_ret = <<0, 0>>
    /\ ipc = "idle"
    /\ stations_tbl = InitialStationTable
    /\ ppc = "idle"
    /\ pass_args = [ products |-> None, labels |-> None,
                     station_names |-> None, station_ids |-> None ]
    /\ filtered = <<>>
    /\ futures = << >>
    /\ fetched = << >>
    /\ results = <<>>
    /\ ri = 0
    /\ counters = [ stations_processed |-> 0, rows_inserted |-> 0,
                    rows_skipped |-> 0 ]
    /\ clock = 0
    /\ PollerIdle
    /\ FilterIdle
    /\ IndexIdle

NextIngest ==
    \/ StartPass
    \/ FetchReturns
    \/ FetchRaises
    \/ OpenSession
    \/ PersistResult
    \/ CommitPass

SpecIngest == InitIngest /\ [][NextIngest]_vars

----------------------------------------------------------------------------
(* Specification SpecPersist: the persistence phase of one pass over the   *)
(* TRAM stations s1 and s2 (ingest.py lines 154-160).  It starts where the *)
(* executor block has ended: both fetches have answered, `results` holds   *)
(* the two answers in the order of completion, and the store holds what    *)
(* earlier passes committed.                                               *)

MaxPersistRows == 3   \* departures in the store and in results together

PriorStores ==
    { << >>,
      << DepartureRawOrm(Fetched(S_s1, Some(T0), Some(S_T17), FetchTime(0)), 1) >> }

AnswerPairs ==
    FetchAnswers(S_s1, FetchTime(1)) \X FetchAnswers(S_s2, FetchTime(1))

InitPersist ==
    /\ ResolveIdle
    /\ CliIdle
    /\ RaceIdle
    /\ FetchIdle
    /\ departures_raw \in PriorStores
    /\ session_new = <<>>
    /\ call_deps = <<>>
    /\ call_ret = <<0, 0>>
    /\ ipc = "idle"
    /\ stations_tbl = sync_stations_from_cache_to_db(InitialStationTable)
    /\ ppc = "persisting"
    /\ pass_args = [ products |-> Some({S_TRAM}), labels |-> None,
                     station_names |-> None, station_ids |-> None ]
    /\ filtered = TargetStations(pass_args)
    /\ futures = [ id \in { S_s1, S_s2 } |-> "done" ]
    /\ \E p \in AnswerPairs :
          /\ Len(departures_raw) + Len(p[1]) + Len(p[2]) <= MaxPersistRows
          /\ fetched = [ id \in { S_s1, S_s2 } |-> IF id = S_s1 THEN p[1] ELSE p[2] ]
          /\ results \in { << <<S_s1, p[1]>>, <<S_s2, p[2]>> >>,
                           << <<S_s2, p[2]>>, <<S_s1, p[1]>> >> }
    /\ ri = 0
    /\ counters = [ stations_processed |-> 0, rows_inserted |-> 0,
                    rows_skipped |-> 0 ]
    /\ clock = 1
    /\ PollerIdle
    /\ FilterIdle
    /\ IndexIdle

NextPersist ==
    \/ PersistResult
    \/ CommitPass

SpecPersist == InitPersist /\ [][NextPersist]_vars

----------------------------------------------------------------------------
(* Specification SpecPoller: the polling loop and the stop signal *)

InitPoller ==
    /\ ResolveIdle
    /\ CliIdle
    /\ RaceIdle
    /\ FetchIdle
    /\ departures_raw = <<>>
    /\ session_new = <<>>
    /\ call_deps = <<>>
    /\ call_ret = <<0, 0>>
    /\ ipc = "idle"
    /\ PassIdle
    /\ stop_flag = FALSE
    /\ backoff = BackoffFloor
    /\ lpc = "top"
    /\ now = 0
    /\ t0 = 0
    /\ sleep_time = 0
    /\ polling_interval_seconds \in PollIntervals
    /\ fails = 0
    /\ iters = 0
    /\ FilterIdle
    /\ IndexIdle

NextPoller ==
    \/ HandleSig
    \/ BeginIteration
    \/ ExitAtTop
    \/ PassSucceeds
    \/ PassRaises
    \/ BackoffSleepEnds
    \/ BeginCadenceSleep
    \/ ExitAfterPass
    \/ CadenceSleepEnds

SpecPoller == InitPoller /\ [][NextPoller]_vars

----------------------------------------------------------------------------
(* Specification SpecFilter: one call of filter_stations_by_products *)

InitFilter ==
    /\ ResolveIdle
    /\ CliIdle
    /\ RaceIdle
    /\ FetchIdle
    /\ departures_raw = <<>>
    /\ session_new = <<>>
    /\ call_deps = <<>>
    /\ call_ret = <<0, 0>>
    /\ ipc = "idle"
    /\ PassIdle
    /\ PollerIdle
    /\ arg_stations \in StationLists
    /\ arg_products \in FilterProducts
    /\ ret_stations = <<>>
    /\ fpc = "ready"
    /\ IndexIdle

NextFilter == CallFilter

SpecFilter == InitFilter /\ [][NextFilter]_vars

----------------------------------------------------------------------------
(* Specification SpecIndex: the command build_label_index, run on a feed  *)
(* and possibly run again when the archive has become unreadable           *)

InitIndex ==
    /\ ResolveIdle
    /\ CliIdle
    /\ RaceIdle
    /\ FetchIdle
    /\ departures_raw = <<>>
    /\ session_new = <<>>
    /\ call_deps = <<>>
    /\ call_ret = <<0, 0>>
    /\ ipc = "idle"
    /\ PassIdle
    /\ PollerIdle
    /\ FilterIdle
    /\ \/ gtfs_archive = "ok" /\ gtfs \in Feeds
       \/ gtfs_archive \in ArchiveFailures /\ gtfs = EmptyFeed
    /\ index_args \in IndexArgs
    /\ index = None
    /\ out_file = None
    /\ cpc = "ready"
    /\ runs = 1

NextIndex ==
    \/ BuildIndex
    \/ BuildAborts
    \/ WriteIndex
    \/ RunAgain

SpecIndex == InitIndex /\ [][NextIndex]_vars

----------------------------------------------------------------------------
(* Specification SpecDepartures: one call of _normalize_epoch_seconds or   *)
(* of fetch_departures (tests/test_departures.py)                          *)

InitDepartures ==
    /\ ResolveIdle
    /\ CliIdle
    /\ RaceIdle
    /\ departures_raw = <<>>
    /\ session_new = <<>>
    /\ call_deps = <<>>
    /\ call_ret = <<0, 0>>
    /\ ipc = "idle"
    /\ PassIdle
    /\ PollerIdle
    /\ FilterIdle
    /\ IndexIdle
    /\ norm_arg \in NormalizeArgs
    /\ norm_ret = None
    /\ item \in Items
    /\ dep = None
    /\ dpc = "ready"

NextDepartures ==
    \/ CallNormalize
    \/ CallFetch

SpecDepartures == InitDepartures /\ [][NextDepartures]_vars

----------------------------------------------------------------------------
(* Specification SpecRace: two passes in their persistence phase at once,  *)
(* on an empty store or on one that already holds the first trip           *)

InitRace ==
    /\ ResolveIdle
    /\ CliIdle
    /\ FetchIdle
    /\ departures_raw \in PriorStores
    /\ session_new = <<>>
    /\ call_deps = <<>>
    /\ call_ret = <<0, 0>>
    /\ ipc = "idle"
    /\ PassIdle
    /\ PollerIdle
    /\ FilterIdle
    /\ IndexIdle
    /\ race_deps \in [ Passes -> RaceDeps(1) \cup RaceDeps(2) ]
    /\ \A p \in Passes : race_deps[p] \in RaceDeps(p)
    /\ race_pos = [ p \in Passes |-> 0 ]
    /\ race_txn = [ p \in Passes |-> <<>> ]
    /\ race_out = [ p \in Passes |-> <<>> ]
    /\ race_pc = [ p \in Passes |-> "persisting" ]
    /\ race_lock = 0

NextRace ==
    \/ \E p \in Passes : RaceInsert(p)
    \/ \E p \in Passes : RaceLockTimeout(p)
    \/ \E p \in Passes : RaceCommit(p)

SpecRace == InitRace /\ [][NextRace]_vars

----------------------------------------------------------------------------
(* Specification SpecCli: the command ingest or poll, run with some        *)
(* options, and the passes it starts                                       *)

InitCli ==
    /\ ResolveIdle
    /\ FetchIdle
    /\ RaceIdle
    /\ departures_raw = <<>>
    /\ session_new = <<>>
    /\ call_deps = <<>>
    /\ call_ret = <<0, 0>>
    /\ ipc = "idle"
    /\ stations_tbl = InitialStationTable
    /\ ppc = "idle"
    /\ pass_args = [ products |-> None, labels |-> None,
                     station_names |-> None, station_ids |-> None ]
    /\ filtered = <<>>
    /\ futures = << >>
    /\ fetched = << >>
    /\ results = <<>>
    /\ ri = 0
    /\ counters = [ stations_processed |-> 0, rows_inserted |-> 0,
                    rows_skipped |-> 0 ]
    /\ clock = 0
    /\ PollerIdle
    /\ FilterIdle
    /\ IndexIdle
    /\ cli_cmd \in { "ingest", "poll" }
    /\ cli_opts \in CliOptions
    /\ cli_index \in { None } \cup { Some(f) : f \in IF ReadsIndex(cli_opts) THEN IndexFiles ELSE {} }
    /\ cli_call = None
    /\ cli_pc = "ready"

NextCli ==
    \/ CliFails
    \/ RunIngest
    \/ RunPoll
    \/ PollNextPass
    \/ FetchReturns
    \/ FetchRaises
    \/ OpenSession
    \/ PersistResult
    \/ CommitPass

SpecCli == InitCli /\ [][NextCli]_vars

----------------------------------------------------------------------------
(* Specification SpecResolve: calls of resolve_stations_for_labels on an   *)
(* index file, either written by the build command or foreign              *)

InitResolve ==
    /\ CliIdle
    /\ RaceIdle
    /\ FetchIdle
    /\ departures_raw = <<>>
    /\ session_new = <<>>
    /\ call_deps = <<>>
    /\ call_ret = <<0, 0>>
    /\ ipc = "idle"
    /\ PassIdle
    /\ PollerIdle
    /\ FilterIdle
    /\ ResolveIdle
    /\ gtfs_archive = "ok"
    /\ runs = 1
    /\ \/ /\ gtfs \in Feeds
          /\ index_args \in IndexArgs
          /\ index = Some(GtfsIndex(build_label_index(gtfs, index_args.products,
                                                      index_args.labels, GtfsStationCache),
                                    GtfsSource))
          /\ out_file = Some(to_json(index[1]))
          /\ cpc = "written"
       \/ /\ gtfs = EmptyFeed
          /\ index_args = [ products |-> None, labels |-> None ]
          /\ index = None
          /\ out_file \in { Some(f) : f \in ForeignIndexFiles }
          /\ cpc = "ready"

NextResolve == ResolveStations

SpecResolve == InitResolve /\ [][NextResolve]_vars

----------------------------------------------------------------------------
(* Properties of insert_departures followed by commit (SpecInsert) *)

KeysOf(rows) == { NaturalKey(rows[i]) : i \in 1..Len(rows) }

(* the step that commits the session of the call in flight *)
CommitStep == ipc = "inserted" /\ ipc' = "idle"

NonKeyFieldsBut(d, except) ==
    [ c \in { "realtime_departure_time", "delay_in_minutes", "cancelled",
              "platform", "realtime", "fetched_at" } \ except |-> d[c] ]

(* two departures with one natural key that differ only in fetched_at *)
SameTripTwice(deps) ==
    /\ Len(deps) = 2
    /\ NaturalKey(deps[1]) = NaturalKey(deps[2])
    /\ deps[1].fetched_at # deps[2].fetched_at
    /\ NonKeyFieldsBut(deps[1], {"fetched_at"}) = NonKeyFieldsBut(deps[2], {"fetched_at"})

(* C1: insert_departures on an empty store with two departures of the same *)
(* natural key that differ only in fetchedAt, then commit, leaves exactly  *)
(* one stored row and returns inserted = 1, skipped = 1.                   *)
C1_DedupIdempotence ==
    [][ (CommitStep /\ departures_raw = <<>> /\ SameTripTwice(call_deps))
        => (Len(departures_raw') = 1 /\ call_ret = <<1, 1>>) ]_vars

(* C2: when a row of the batch hits a uniqueness conflict, every row of    *)
(* the batch whose natural key was not in the store before the call is in  *)
(* the store after the commit, wherever it stands in the batch.            *)
C2_RowLevelIsolation ==
    [][ (CommitStep /\ call_ret[2] > 0)
        => \A i \in 1..Len(call_deps) :
              NaturalKey(call_deps[i]) \notin KeysOf(departures_raw)
              => NaturalKey(call_deps[i]) \in KeysOf(departures_raw') ]_vars

(* C5: inserting again departures whose natural keys are all stored, with  *)
(* other non-key fields, leaves every stored row as it was and the row     *)
(* count unchanged.                                                        *)
C5_NoUpdateOnDuplicate ==
    [][ ( /\ CommitStep
          /\ call_deps # <<>>
          /\ \A i \in 1..Len(call_deps) :
                \E j \in 1..Len(departures_raw) :
                   /\ NaturalKey(departures_raw[j]) = NaturalKey(call_deps[i])
                   /\ NonKeyFieldsBut(departures_raw[j], {}) # NonKeyFieldsBut(call_deps[i], {}) )
        => departures_raw' = departures_raw ]_vars

----------------------------------------------------------------------------
(* Properties of the ingestion pass (SpecIngest) *)

(* the step that commits the session of the pass and returns *)
PassCommitStep == ppc = "persisting" /\ ppc' = "returned"

Succeeded == { id \in DOMAIN futures : futures[id] = "done" }

(* C3: after any sequence of passes the store never holds two rows with    *)
(* the same natural key, for every key the Departure model allows          *)
(* (plannedTime may be absent).                                            *)
C3_NaturalKeyUnique ==
    \A i, j \in 1..Len(departures_raw) :
        i # j => NaturalKey(departures_raw[i]) # NaturalKey(departures_raw[j])

(* C4: rows_inserted is the number of rows the pass added to the store,    *)
(* and rows_inserted + rows_skipped is the number of label-filtered        *)
(* departures returned by the stations whose fetch succeeded.              *)
C4_CountersAccurate ==
    [][ PassCommitStep
        => /\ counters.rows_inserted = Len(departures_raw') - Len(departures_raw)
           /\ counters.rows_inserted + counters.rows_skipped = ResultRows(results)
      ]_vars

(* C6: whatever stations fail to fetch, the pass returns, every departure  *)
(* of a station whose fetch succeeded is in the store, no row of a failed  *)
(* station is added, and stations_processed counts the succeeded stations. *)
C6_FetchFailureIsolation ==
    [][ PassCommitStep
        => /\ counters.stations_processed = Cardinality(Succeeded)
           /\ \A k \in 1..Len(results) :
                 /\ results[k][1] \in Succeeded
                 /\ \A i \in 1..Len(results[k][2]) :
                       NaturalKey(results[k][2][i]) \in KeysOf(departures_raw')
           /\ \A j \in (Len(departures_raw) + 1)..Len(departures_raw') :
                 departures_raw'[j].station_id \in Succeeded
      ]_vars

----------------------------------------------------------------------------
(* Properties of the poller (SpecPoller) *)

RECURSIVE Pow2(_)
Pow2(k) == IF k = 0 THEN 1 ELSE 2 * Pow2(k - 1)

(* C7: backoff starts at 1, doubles with each consecutive failed pass up   *)
(* to 60, is 1 again after a successful pass, stays within 1..60, and the  *)
(* sleep after the k-th consecutive failure lasts min(2^(k-1), 60).        *)
C7_PollerBackoff ==
    /\ 1 <= backoff /\ backoff <= 60
    /\ IF lpc = "backoff_sleep"
       THEN backoff = Min(Pow2(fails - 1), 60)
       ELSE backoff = Min(Pow2(fails), 60)

C7_Witness == lpc = "backoff_sleep" /\ fails = 8 /\ backoff = 60

(* C8: the poller is Stopped only with the stop flag set; a failed pass    *)
(* never ends the loop: with the flag clear the loop goes from the backoff *)
(* sleep to the check, the cadence sleep, the loop top and the next pass.  *)
C8_NeverExitsOnFailure ==
    [][ /\ (lpc' = "Stopped" => stop_flag')
        /\ (lpc = "pass" /\ lpc' # lpc => lpc' \in { "after", "backoff_sleep" })
        /\ (lpc = "backoff_sleep" /\ lpc' # lpc => lpc' = "after")
        /\ (lpc = "after" /\ ~stop_flag /\ lpc' # lpc => lpc' = "cadence_sleep")
        /\ (lpc = "cadence_sleep" /\ lpc' # lpc => lpc' = "top")
        /\ (lpc = "top" /\ ~stop_flag /\ lpc' # lpc => lpc' = "pass")
      ]_vars

C8_Witness == lpc = "pass" /\ fails > 0 /\ ~stop_flag

(* C9: once the stop flag is set the poller lets the pass in flight end,   *)
(* starts no new pass and begins no new sleep.                             *)
C9_CooperativeShutdown ==
    [][ /\ (~stop_flag /\ stop_flag' => lpc' = lpc)
        /\ (stop_flag
              => /\ (lpc' = "pass" => lpc = "pass")
                 /\ (lpc' = "backoff_sleep" => lpc = "backoff_sleep")
                 /\ (lpc' = "cadence_sleep" => lpc = "cadence_sleep"))
      ]_vars

(* C10: when a pass succeeds and the stop flag was set while it ran, the   *)
(* poller goes to Stopped right after the pass: no cadence sleep, no       *)
(* further pass.                                                           *)
C10_StopAfterSuccessfulPass ==
    [][ /\ (lpc = "pass" /\ stop_flag /\ fails' = 0 /\ lpc' # lpc => lpc' = "after")
        /\ (lpc = "after" /\ stop_flag /\ fails = 0 /\ lpc' # lpc
               => lpc' = "Stopped" /\ now' = now /\ iters' = iters)
      ]_vars

C10_Witness ==
    /\ lpc = "Stopped"
    /\ fails = 0
    /\ iters >= 1
    /\ now - t0 < polling_interval_seconds

(* the backoff slept in the iteration in flight, once it has been slept *)
SleptBackoff == Min(Pow2(fails - 1), 60)

(* C11: an iteration whose pass failed after d seconds, with backoff b,    *)
(* lasts b seconds longer than an iteration whose pass succeeded after d   *)
(* seconds: from t0 to the start of the next iteration it takes            *)
(* max(interval, d) + b.                                                   *)
C11_BackoffAddsToCadence ==
    (lpc = "cadence_sleep" /\ fails > 0)
    => LET b == SleptBackoff
           d == (now - t0) - b
       IN  (now + sleep_time) - t0
              = (IF polling_interval_seconds > d THEN polling_interval_seconds ELSE d) + b

(* C12: after a successful pass that took e seconds, with the flag clear,  *)
(* the poller sleeps max(0, interval - e), never a negative time, and the  *)
(* next iteration starts max(interval, e) after this one started.          *)
C12_IntervalCompensation ==
    [][ /\ (lpc = "after" /\ lpc' = "cadence_sleep" /\ fails = 0)
            => LET e == now - t0
               IN  /\ sleep_time' >= 0
                   /\ sleep_time' = (IF polling_interval_seconds - e > 0
                                     THEN polling_interval_seconds - e ELSE 0)
        /\ (lpc = "cadence_sleep" /\ lpc' = "top" /\ fails = 0)
            => LET e == now - t0
               IN  now' - t0' = (IF polling_interval_seconds > e
                                 THEN polling_interval_seconds ELSE e)
      ]_vars

C12_Witness ==
    /\ lpc = "top"
    /\ fails = 0
    /\ iters >= 1
    /\ ~stop_flag
    /\ now - t0 > polling_interval_seconds

----------------------------------------------------------------------------
(* Properties of filter_stations_by_products (SpecFilter) *)

(* the station declares a product equal, letter case apart, to a requested one *)
DeclaresRequested(st, requested) ==
    /\ st.products # None
    /\ \E i \in 1..Len(st.products[1]) :
          \E q \in requested : str_lower(st.products[1][i]) = str_lower(q)

(* C17: filter_stations_by_products returns, in the input order, exactly   *)
(* the stations whose declared products meet the requested set, letter     *)
(* case apart, so never a station without products; when the requested set *)
(* holds ALL, is empty or is absent, it returns every station.             *)
C17_ProductFiltering ==
    fpc = "returned"
    => IF arg_products = None \/ arg_products[1] = {} \/ S_ALL \in arg_products[1]
       THEN ret_stations = arg_stations
       ELSE ret_stations =
               SelectSeq(arg_stations,
                         LAMBDA st : DeclaresRequested(st, arg_products[1]))

C17_Witness ==
    /\ fpc = "returned"
    /\ arg_products = Some({S_tram})
    /\ Len(arg_stations) = 3
    /\ Len(ret_stations) = 2
    /\ ret_stations[1].id = S_s2
    /\ ret_stations[2].id = S_s1
    /\ \E i \in 1..3 : arg_stations[i].products = None

----------------------------------------------------------------------------
(* Properties of the station narrowing, the station sync and the label     *)
(* filter of the pass (SpecIngest)                                         *)

(* the station passes an explicit name filter that was given *)
InNameSet(st, station_names) ==
    \E x \in station_names : str_lower(str_strip(st.name)) = str_lower(str_strip(x))

(* C18: the stations a pass fetches are exactly the product-filtered       *)
(* stations that pass every explicit filter that was given: the name       *)
(* filter by the trimmed lower-cased name, the id filter by the id as it   *)
(* is; no station outside a given id set is fetched.                       *)
C18_StationNarrowing ==
    ppc # "idle"
    => LET pf == filter_stations_by_products(read_cache, pass_args.products)
       IN  DOMAIN futures =
              { pf[i].id : i \in { j \in 1..Len(pf) :
                   /\ pass_args.station_names # None
                         => InNameSet(pf[j], pass_args.station_names[1])
                   /\ pass_args.station_ids # None
                         => pf[j].id \in pass_args.station_ids[1] } }

(* the rows of the stations table with the given primary key *)
RowsOf(tbl, id) == { j \in 1..Len(tbl) : tbl[j].station_id = id }

CarriesCacheFields(row, st) ==
    /\ row.name = Some(st.name)
    /\ row.place = st.place
    /\ row.latitude = st.latitude
    /\ row.longitude = st.longitude
    /\ row.diva_id = st.diva_id
    /\ row.tariff_zones = st.tariff_zones
    /\ row.products = st.products

(* C19: when the fetches of a pass are submitted every target station has  *)
(* exactly one row in the stations table, carrying the fields of the       *)
(* cache; a row that was there stays where it was and is the row of the    *)
(* same id; a second sync with the same cache changes nothing.             *)
C19_StationUpsertBeforeFetch ==
    [][ (ppc # "fetching" /\ ppc' = "fetching")
        => /\ \A i \in 1..Len(filtered') :
                 /\ Cardinality(RowsOf(stations_tbl', filtered'[i].id)) = 1
                 /\ \A j \in RowsOf(stations_tbl', filtered'[i].id) :
                       CarriesCacheFields(stations_tbl'[j], filtered'[i])
           /\ \A id \in { stations_tbl[j].station_id : j \in 1..Len(stations_tbl) } :
                 /\ Cardinality(RowsOf(stations_tbl', id)) = Cardinality(RowsOf(stations_tbl, id))
                 /\ RowsOf(stations_tbl', id) = RowsOf(stations_tbl, id)
           /\ sync_stations_from_cache_to_db(stations_tbl') = stations_tbl'
      ]_vars

C19_Witness ==
    /\ ppc = "fetching"
    /\ clock = 1
    /\ S_s2 \in DOMAIN futures
    /\ Len(stations_tbl) = 3
    /\ stations_tbl[1].station_id = S_s2
    /\ stations_tbl[1].name = Some(<<"B", "e", "t", "a">>)

(* the departure passes a label filter that was requested *)
InLabelSet(d, labels) ==
    /\ d.label # None
    /\ \E x \in labels : str_upper(str_strip(d.label[1])) = str_upper(str_strip(x))

(* C20: with a label filter the pass hands to persistence, of what a fetch *)
(* returned, exactly the departures whose trimmed upper-cased label is in  *)
(* the trimmed upper-cased filter set, so none without a label, and adds   *)
(* no other row to the store; without a label filter it hands over every   *)
(* fetched departure.                                                      *)
C20_LabelFilter ==
    [][ /\ \A k \in 1..Len(results') :
              LET raw == fetched'[results'[k][1]]
              IN  results'[k][2] =
                     IF pass_args'.labels = None
                     THEN raw
                     ELSE SelectSeq(raw, LAMBDA d : InLabelSet(d, pass_args'.labels[1]))
        /\ (PassCommitStep /\ pass_args.labels # None)
              => \A j \in (Len(departures_raw) + 1)..Len(departures_raw') :
                     InLabelSet(departures_raw'[j], pass_args.labels[1])
      ]_vars

C20_Witness ==
    /\ ppc = "returned"
    /\ pass_args.labels # None
    /\ \E id \in DOMAIN fetched :
          /\ Len(fetched[id]) = 2
          /\ fetched[id][1].label = None
          /\ fetched[id][2].label = Some(S_T17)
    /\ Len(departures_raw) = 1

----------------------------------------------------------------------------
(* Properties of the label index (SpecIndex) *)

Built == cpc \in { "built", "written" } /\ index # None

UniqueRouteIds(routes) ==
    \A i, j \in 1..Len(routes) : routes[i].route_id = routes[j].route_id => i = j

(* the first three colon-separated segments, or the whole identifier when *)
(* it has fewer than three                                                 *)
Key3(x) ==
    LET colons == { i \in 1..Len(x) : x[i] = ":" }
    IN  IF Cardinality(colons) >= 3
        THEN LET third == CHOOSE i \in colons :
                              Cardinality({ j \in colons : j < i }) = 2
             IN  SubSeq(x, 1, third - 1)
        ELSE x

Trimmed(x) == str_strip(x)

(* s is listed under mapping[p][l] *)
Listed(mapping, p, l, s) ==
    /\ p \in DOMAIN mapping
    /\ l \in DOMAIN mapping[p]
    /\ s \in Range(mapping[p][l])

(* a route of product p and label l that passes the filters has a trip    *)
(* that visits a stop of the stops table whose key is the key of s         *)
Joined(feed, args, p, l, s) ==
    /\ \E k \in 1..Len(GtfsStationCache) : GtfsStationCache[k].id = s
    /\ \E i \in 1..Len(feed.routes), j \in 1..Len(feed.trips),
          k \in 1..Len(feed.stop_times), m \in 1..Len(feed.stops) :
          LET r == feed.routes[i]
              resolved == IF Trimmed(feed.stops[m].parent_station) # <<>>
                          THEN Trimmed(feed.stops[m].parent_station)
                          ELSE feed.stops[m].stop_id
          IN  /\ r.route_type \in DOMAIN ROUTE_TYPE_TO_PRODUCT
              /\ ROUTE_TYPE_TO_PRODUCT[r.route_type] = p
              /\ \/ args.products = None
                 \/ \E q \in args.products[1] : str_upper(q) = p
              /\ str_upper(Trimmed(r.route_short_name)) = l
              /\ l # <<>>
              /\ \/ args.labels = None
                 \/ \E x \in args.labels[1] : str_upper(Trimmed(x)) = l
              /\ feed.trips[j].route_id = r.route_id
              /\ feed.stop_times[k].trip_id = feed.trips[j].trip_id
              /\ feed.stops[m].stop_id = feed.stop_times[k].stop_id
              /\ Key3(resolved) = Key3(s)

ProductNames == { S_TRAM, S_UBAHN, S_SBAHN, S_BUS }

LabelsOf(feed, mapping) ==
    { str_upper(Trimmed(feed.routes[i].route_short_name)) : i \in 1..Len(feed.routes) }
    \cup { feed.routes[i].route_short_name : i \in 1..Len(feed.routes) }
    \cup UNION { DOMAIN mapping[p] : p \in DOMAIN mapping }

StationIdsOf(mapping) ==
    { GtfsStationCache[k].id : k \in 1..Len(GtfsStationCache) }
    \cup { S_d91a, <<"d", ":", "9", ":", "1">> }
    \cup UNION { UNION { Range(mapping[p][l]) : l \in DOMAIN mapping[p] } :
                    p \in DOMAIN mapping }

(* C13: when the route ids are unique, s is listed under mapping[p][l] if *)
(* and only if s is in the station cache and a route of product p that     *)
(* passes the product filter, with non-empty trimmed upper-cased short     *)
(* name l that passes the label filter, has a trip visiting a stop of the  *)
(* stops table whose parent (or the stop itself when it declares none) has *)
(* the same first three segments as s.                                     *)
C13_IndexJoin ==
    (Built /\ UniqueRouteIds(gtfs.routes))
    => LET mapping == index[1].mapping
       IN  \A p \in ProductNames \cup (DOMAIN mapping \ {S_ALL}) :
             \A l \in LabelsOf(gtfs, mapping) :
               \A s \in StationIdsOf(mapping) :
                  Listed(mapping, p, l, s) <=> Joined(gtfs, index_args, p, l, s)

C13_Witness ==
    /\ Built
    /\ UniqueRouteIds(gtfs.routes)
    /\ Len(gtfs.routes) = 2
    /\ index_args.products # None
    /\ index_args.labels # None
    /\ Listed(index[1].mapping, S_TRAM, S_19, S_d92)
    /\ Listed(index[1].mapping, S_TRAM, S_19, S_q)
    /\ ~Listed(index[1].mapping, S_TRAM, S_19, S_d91k)

(* the mapping the builder returns for the feed, filters and cache at hand *)
MappingOf(feed) ==
    build_label_index(feed, index_args.products, index_args.labels, GtfsStationCache)

(* the list without its i-th row *)
Without(rows, i) == SubSeq(rows, 1, i - 1) \o SubSeq(rows, i + 1, Len(rows))

Unmapped(r) == r.route_type \notin DOMAIN ROUTE_TYPE_TO_PRODUCT

(* mapping["ALL"] has the labels of the product partitions, and under     *)
(* each label the union of their stations                                  *)
AllIsUnion(mapping) ==
    LET parts == DOMAIN mapping \ {S_ALL}
        all   == IF S_ALL \in DOMAIN mapping THEN mapping[S_ALL] ELSE << >>
    IN  /\ (S_ALL \in DOMAIN mapping) <=> (parts # {})
        /\ DOMAIN all = UNION { DOMAIN mapping[p] : p \in parts }
        /\ \A l \in DOMAIN all :
              Range(all[l]) =
                 UNION { Range(MappingGet(mapping, p, l)) : p \in parts }

(* the route row contributes nothing: the index built from the feed       *)
(* without it is the same                                                  *)
ContributesNothing(feed, i) ==
    MappingOf([ feed EXCEPT !.routes = Without(feed.routes, i) ]) = MappingOf(feed)

(* C14 as stated: in every built index ALL is the union of the product    *)
(* partitions, and every route whose type is not in the lookup table       *)
(* contributes to no partition, ALL included.                              *)
C14_AllPartition_AsStated ==
    Built
    => /\ AllIsUnion(index[1].mapping)
       /\ index[1].mapping = MappingOf(gtfs)
       /\ \A i \in 1..Len(gtfs.routes) :
             Unmapped(gtfs.routes[i]) => ContributesNothing(gtfs, i)

(* C14 over feeds with unique route ids: in every built index ALL is the   *)
(* union of the product partitions; when the route ids are unique, a route *)
(* whose type is not in the lookup table contributes to no partition.      *)
C14_AllPartition ==
    Built
    => /\ AllIsUnion(index[1].mapping)
       /\ index[1].mapping = MappingOf(gtfs)
       /\ UniqueRouteIds(gtfs.routes)
             => \A i \in 1..Len(gtfs.routes) :
                   Unmapped(gtfs.routes[i]) => ContributesNothing(gtfs, i)

C14_Witness ==
    /\ Built
    /\ UniqueRouteIds(gtfs.routes)
    /\ index_args = [ products |-> None, labels |-> Some({<<" ", "1", "9">>}) ]
    /\ \E i, j \in 1..Len(gtfs.routes) :
          /\ Unmapped(gtfs.routes[i])
          /\ gtfs.routes[j].route_type = <<"0">>
          /\ \E k \in 1..Len(gtfs.trips) : gtfs.trips[k].route_id = gtfs.routes[i].route_id
    /\ Len(gtfs.stop_times) = 2
    /\ Len(gtfs.stops) = 2
    /\ DOMAIN index[1].mapping = { S_TRAM, S_ALL }
    /\ index[1].mapping[S_ALL][S_19] # <<>>

(* the lists with the rows of the given list in every order *)
Reorderings(rows) ==
    LET n == Len(rows)
    IN  { [ i \in 1..n |-> rows[f[i]] ] :
            f \in { g \in [1..n -> 1..n] : \A a, b \in 1..n : g[a] = g[b] => a = b } }

StrictlyAscending(ids) ==
    \A i \in 1..(Len(ids) - 1) : StrLess(ids[i], ids[i + 1])

(* C15: every station list of a built index is strictly ascending, and    *)
(* the mapping is the same whatever the order of the stations in the cache *)
(* and of the rows of stop_times.                                          *)
C15_IndexDeterminism ==
    Built
    => LET mapping == index[1].mapping
       IN  /\ \A p \in DOMAIN mapping : \A l \in DOMAIN mapping[p] :
                  StrictlyAscending(mapping[p][l])
           /\ \A cache \in Reorderings(GtfsStationCache) :
                 \A rows \in Reorderings(gtfs.stop_times) :
                    build_label_index([ gtfs EXCEPT !.stop_times = rows ],
                                      index_args.products, index_args.labels, cache)
                       = mapping

C15_Witness ==
    /\ Built
    /\ Len(gtfs.stop_times) = 2
    /\ S_TRAM \in DOMAIN index[1].mapping
    /\ S_19 \in DOMAIN index[1].mapping[S_TRAM]
    /\ index[1].mapping[S_TRAM][S_19] = << S_d91k, S_q >>

(* C16: while the archive cannot be opened or read the command ends with  *)
(* the error and the output file is neither created nor changed; the file  *)
(* is written only with the index of a build that has returned the whole   *)
(* mapping.                                                                *)
C16_NoPartialArtifact ==
    [][ /\ gtfs_archive \in ArchiveFailures
            => /\ out_file' = out_file
               /\ (cpc = "ready" /\ cpc' # cpc) => cpc' = "failed"
               /\ index' = None
        /\ out_file' # out_file
            => /\ cpc = "built"
               /\ gtfs_archive = "ok"
               /\ index # None
               /\ index[1].mapping = MappingOf(gtfs)
               /\ out_file' = Some(to_json(index[1]))
      ]_vars

C16_Witness ==
    /\ cpc = "failed"
    /\ runs = 2
    /\ gtfs_archive = "missing_table"
    /\ out_file # None
    /\ out_file[1].mapping # << >>

----------------------------------------------------------------------------
(* Properties of departures.py, checked on SpecDepartures *)

(* the delay the upstream record supplies, under either spelling *)
UpstreamDelay(it) ==
    IF it.delay_in_minutes # None THEN it.delay_in_minutes ELSE it.delayInMinutes

(* m is d / 60 rounded to a nearest integer *)
NearestMinute(d, m) == (60 * m - d) \in (0 - 30)..30

(* C21: the delay of the Departure is the upstream delay whenever upstream *)
(* supplies one, the value 0 included; without one it is the rounded       *)
(* difference of the two timestamps in minutes when the Departure has      *)
(* both (5 for planned T and realtime T + 300), and absent otherwise.      *)
C21_DelayDerivation ==
    dpc = "fetched"
    => LET d  == dep[1]
           up == UpstreamDelay(item)
       IN  /\ up # None => d.delay_in_minutes = up
           /\ up = None
              => IF d.planned_departure_time # None /\ d.realtime_departure_time # None
                 THEN /\ d.delay_in_minutes # None
                      /\ NearestMinute(d.realtime_departure_time[1]
                                          - d.planned_departure_time[1],
                                       d.delay_in_minutes[1])
                 ELSE d.delay_in_minutes = None
           /\ ( /\ up = None
                /\ d.planned_departure_time = Some(T0)
                /\ d.realtime_departure_time = Some(T0 + 300) )
              => d.delay_in_minutes = Some(5)

(* C21 without the case of an upstream delay of 0 *)
C21_DelayDerivation_NonZero ==
    (dpc = "fetched" /\ UpstreamDelay(item) # Some(0)) => C21_DelayDerivation

C21_Witness ==
    /\ dpc = "fetched"
    /\ UpstreamDelay(item) = None
    /\ item.plannedDepartureTime = PyInt(Num(FALSE, 1700, 0))
    /\ item.realtimeDepartureTime = PyInt(SmallNum(T0 + 300))
    /\ dep[1].delay_in_minutes = Some(5)

(* what the claim gives for an integer a: a itself up to the threshold,    *)
(* the integer quotient by 1000 above it                                   *)
ExpectedSeconds(a) == IF NumGreater(a, MsThreshold) THEN FloorDiv1000(a) ELSE a

(* C22: _normalize_epoch_seconds maps an absent value to absent, an        *)
(* integer up to the threshold 10,000,000,000 to itself, a larger integer  *)
(* to its integer quotient by 1000, and a string of digits as its number.  *)
C22_TimestampNormalization ==
    dpc = "normalized"
    => /\ norm_arg.kind = "none" => norm_ret = None
       /\ norm_arg.kind = "int" => norm_ret = Some(ExpectedSeconds(norm_arg.num))
       /\ (norm_arg.kind = "str" /\ IsDigits(norm_arg.text))
             => norm_ret = Some(ExpectedSeconds(DigitsToNum(norm_arg.text)))
       /\ norm_arg = PyInt(SmallNum(T0)) => norm_ret = Some(SmallNum(T0))
       /\ norm_arg = PyInt(Num(FALSE, 1700, 0)) => norm_ret = Some(SmallNum(T0))

(* C22 for values below 2^53, which a double holds exactly *)
C22_TimestampNormalization_Exact ==
    ( /\ dpc = "normalized"
      /\ norm_arg.kind = "int" => MagLess(norm_arg.num, DoubleLimits[1]) )
    => C22_TimestampNormalization

C22_Witness ==
    /\ dpc = "normalized"
    /\ norm_arg = PyInt(Num(FALSE, 10, 1))
    /\ norm_ret = Some(SmallNum(10000000))

----------------------------------------------------------------------------
(* Properties of the persistence phase (SpecPersist) *)

(* ingest.py lines 155-159 as a whole: the transaction left by persisting  *)
(* the entries of res in their order                                       *)
RECURSIVE PersistLoop(_, _, _)
PersistLoop(table, txn, res) ==
    IF res = <<>> THEN txn
    ELSE PersistLoop(table, insert_departures(table, txn, Head(res)[2]).txn, Tail(res))

(* the store after the pass has persisted res and committed *)
StoreAfterPass(table, res) == SessionCommit(table, PersistLoop(table, <<>>, res))

(* the rows of a table without their surrogate key *)
RowContents(rows) ==
    { [ c \in DOMAIN rows[i] \ { "id" } |-> rows[i][c] ] : i \in 1..Len(rows) }

(* C23: the set of rows in the store after a pass is the same for every    *)
(* order in which the station fetches complete and are persisted.          *)
C23_PersistenceOrderIndependence ==
    [][ PassCommitStep
        => \A r \in Reorderings(results) :
              RowContents(StoreAfterPass(departures_raw, r)) = RowContents(departures_raw')
      ]_vars

(* C23 for the passes in which no insert was rejected *)
C23_PersistenceOrderIndependence_NoConflict ==
    [][ (PassCommitStep /\ counters.rows_skipped = 0)
        => \A r \in Reorderings(results) :
              RowContents(StoreAfterPass(departures_raw, r)) = RowContents(departures_raw')
      ]_vars

C23_Witness ==
    /\ ppc = "returned"
    /\ counters.rows_skipped = 0
    /\ Len(results) = 2
    /\ Len(results[1][2]) = 1
    /\ Len(results[2][2]) = 2
    /\ Len(departures_raw) = 3

----------------------------------------------------------------------------
(* C24: within a pass no departure row is written (flushed into the        *)
(* session or committed to the table) until every submitted fetch has      *)
(* returned or failed; all writes go through the one session of the pass,  *)
(* which is committed once, after the last entry of results, as the pass   *)
(* returns.                                                                *)
C24_FetchPersistPhases ==
    [][ /\ (session_new' # session_new \/ departures_raw' # departures_raw)
           => /\ ppc = "persisting"
              /\ DOMAIN futures = { filtered[i].id : i \in 1..Len(filtered) }
              /\ \A id \in DOMAIN futures : futures[id] \in { "done", "raised" }
        /\ departures_raw' # departures_raw
           => /\ PassCommitStep
              /\ ri = Len(results)
              /\ departures_raw' = departures_raw \o session_new
        /\ PassCommitStep
           => /\ ri = Len(results)
              /\ session_new' = <<>>
      ]_vars

C24_Witness ==
    /\ ppc = "returned"
    /\ \E id \in DOMAIN futures : futures[id] = "raised"
    /\ \E id \in DOMAIN futures : futures[id] = "done"
    /\ Len(results) = 1
    /\ clock = 1
    /\ Len(departures_raw) = 2

----------------------------------------------------------------------------
(* Properties of two overlapping passes (SpecRace) *)

RaceOver == \A p \in Passes : race_pc[p] \in { "returned", "failed" }

(* the natural keys both passes try to insert that the store did not hold  *)
(* when they started; RacedKeys is evaluated where the store is known      *)
KeysTried(p) == { NaturalKey(race_deps[p][i]) : i \in 1..Len(race_deps[p]) }

RowsWithKey(k) == { i \in 1..Len(departures_raw) : NaturalKey(departures_raw[i]) = k }

Tries(p, k) == { i \in 1..Len(race_deps[p]) : NaturalKey(race_deps[p][i]) = k }

(* C25: when two overlapping passes both try to insert a departure with    *)
(* the same natural key, then under every interleaving neither pass fails, *)
(* the store ends with exactly one row for that key, every insert of the   *)
(* key but one is counted as a duplicate skip, and every other departure   *)
(* of either pass is stored (each key tried is in the store).              *)
C25_BenignWriteRace ==
    (RaceOver /\ KeysTried(1) \cap KeysTried(2) # {})
    => /\ \A p \in Passes : race_pc[p] = "returned"
       /\ \A k \in KeysTried(1) \cap KeysTried(2) :
             /\ Cardinality(RowsWithKey(k)) = 1
             /\ Cardinality({ x \in Passes \X (1..MaxRaceDeps + 1) :
                                 /\ x[2] \in Tries(x[1], k)
                                 /\ x[2] <= Len(race_out[x[1]])
                                 /\ race_out[x[1]][x[2]] = "inserted" }) <= 1
       /\ \A k \in KeysTried(1) \cup KeysTried(2) : RowsWithKey(k) # {}

(* C25 for the runs in which no wait for the lock timed out: then neither  *)
(* pass fails and no key is stored twice                                   *)
C25_NoFailureWithoutTimeout ==
    (RaceOver /\ \A p \in Passes : Len(race_out[p]) = Len(race_deps[p]))
    => /\ \A p \in Passes : race_pc[p] = "returned"
       /\ \A k \in KeysTried(1) \cup KeysTried(2) : Cardinality(RowsWithKey(k)) <= 1

(* C25 for the runs in which neither pass failed.  It is refuted as well:  *)
(* the rollback after a duplicate discards the rows the pass had added, so *)
(* a key tried by one pass alone can be missing from the store; it holds   *)
(* when RaceRollback is RaceRollback_RowLevel.                             *)
C25_BenignWriteRace_Returned ==
    (\A p \in Passes : race_pc[p] = "returned") => C25_BenignWriteRace

----------------------------------------------------------------------------
(* Properties of the commands (SpecCli)                                    *)

(* the ids of the stations of the cache that offer one of the products     *)
(* (every station when no product or ALL is asked for) and, when names are *)
(* given, bear one of the names                                            *)
ProductNameMatches(products, station_names) ==
    { read_cache[i].id : i \in { j \in 1..Len(read_cache) :
          /\ \/ products = {}
             \/ S_ALL \in products
             \/ ProductMatches(read_cache[j], products)
          /\ \/ station_names = None
             \/ \E n \in station_names[1] :
                   str_lower(str_strip(n)) = str_lower(str_strip(read_cache[j].name)) } }

(* the label index was asked for, labels were given, no station id was     *)
(* given, and the index lists no station for the labels                    *)
ExpansionFindsNothing ==
    /\ ReadsIndex(cli_opts)
    /\ cli_opts.station_ids = None
    /\ cli_index # None
    /\ \A prod \in DOMAIN cli_index[1].mapping :
          \A lab \in DOMAIN cli_index[1].mapping[prod] :
             \/ prod \notin ProductSet(cli_opts.products)
             \/ lab \notin { str_upper(l) : l \in StripSet(cli_opts.labels)[1] }
             \/ cli_index[1].mapping[prod][lab] = << >>

(* C26: a pass of the ingest command that received the empty set as        *)
(* station_ids fetches every station of the cache that matches the         *)
(* products and the names, and the command passes the empty set when the   *)
(* label-index expansion finds no station and no id was given.             *)
C26_EmptyIdSetIsNoFilter ==
    (cli_cmd = "ingest" /\ cli_pc = "called")
    => /\ ExpansionFindsNothing => pass_args.station_ids = Some({})
       /\ pass_args.station_ids = Some({})
          => DOMAIN futures = ProductNameMatches(pass_args.products[1],
                                                 pass_args.station_names)

C26_Witness ==
    /\ cli_cmd = "ingest"
    /\ cli_pc = "called"
    /\ ExpansionFindsNothing
    /\ cli_opts.station_names # None
    /\ pass_args.station_ids = Some({})
    /\ ppc = "returned"
    /\ DOMAIN futures = { S_s2 }
    /\ futures[S_s2] = "done"

(* the stations a pass scoped by products alone fetches *)
PollTargets(products) == ProductNameMatches(ProductSet(products), None)

(* C27: every pass the poll command starts gets the product set alone, so  *)
(* that its stations are those of the products and each result is the      *)
(* whole answer of its station, whatever labels, names, ids and label      *)
(* index the command was given.                                            *)
C27_PollerProductScopeOnly ==
    (cli_cmd = "poll" /\ cli_pc = "called")
    => /\ pass_args = [ products |-> Some(ProductSet(cli_opts.products)),
                        labels |-> None, station_names |-> None,
                        station_ids |-> None ]
       /\ DOMAIN futures = PollTargets(cli_opts.products)
       /\ \A i \in 1..Len(results) : results[i][2] = fetched[results[i][1]]

(* the second pass of a poll command given a label, a name, ids and the    *)
(* label index has fetched s1, which neither the name nor the ids select,  *)
(* and has stored a departure of another label                             *)
C27_Witness ==
    /\ cli_cmd = "poll"
    /\ cli_pc = "called"
    /\ clock = 2
    /\ cli_opts.labels # None
    /\ cli_opts.station_names # None
    /\ cli_opts.station_ids # None
    /\ cli_opts.use_label_index
    /\ ppc = "returned"
    /\ S_s1 \in DOMAIN futures
    /\ \E i \in 1..Len(departures_raw) :
          /\ departures_raw[i].station_id = S_s1
          /\ departures_raw[i].label # Some(S_19)

----------------------------------------------------------------------------
(* Properties of resolve_stations_for_labels (SpecResolve)                 *)

(* the station ids the mapping lists under partition p for one of the      *)
(* labels, upper-cased and trimmed                                         *)
ListedFor(mapping, p, labels) ==
    { s \in StationIdsOf(mapping) :
         \E l \in labels : Listed(mapping, p, str_upper(str_strip(l)), s) }

(* C28: the list resolve_stations_for_labels returns is strictly ascending *)
(* (hence free of duplicates) and holds the station ids listed for the     *)
(* requested labels under a requested product or under ALL; on an index    *)
(* that build_label_index produced it holds the ids of the ALL partition   *)
(* for the labels and is the same for every products argument.             *)
C28_ResolveUnion ==
    res_ret # None
    => LET mapping == out_file[1].mapping
           wanted  == { str_upper(str_strip(p)) : p \in res_args.products } \cup { S_ALL }
       IN  /\ StrictlyAscending(res_ret[1])
           /\ Range(res_ret[1]) = UNION { ListedFor(mapping, p, res_args.labels) : p \in wanted }
           /\ index # None
              => /\ Range(res_ret[1]) = ListedFor(mapping, S_ALL, res_args.labels)
                 /\ \A products \in ResolveProducts :
                       resolve_stations_for_labels(out_file[1], products, res_args.labels)
                          = res_ret[1]

(* a built index lists two stations for label 19 under TRAM and ALL; the   *)
(* call with product " tram" and labels 19 and n1 returns both             *)
C28_Witness ==
    /\ res_ret # None
    /\ index # None
    /\ res_args.products = { <<" ", "t", "r", "a", "m">> }
    /\ Cardinality(res_args.labels) = 2
    /\ Len(res_ret[1]) = 2
    /\ Listed(out_file[1].mapping, S_TRAM, S_19, res_ret[1][1])

(* a foreign index: the result holds stations that its ALL partition lacks *)
ForeignIndexResolved ==
    /\ res_ret # None
    /\ index = None
    /\ Range(res_ret[1]) # ListedFor(out_file[1].mapping, S_ALL, res_args.labels)
    /\ Len(res_ret[1]) = 3

====
